---- MODULE Spec2Model ----
(***************************************************************************)
(* Nekomata history recorder: snapshot segmentation (history/recorder.rs), *)
(* dungeon run aggregation (history/dungeon.rs), the dungeon catalog       *)
(* (dungeon/catalog.rs) and the text parsers (history/util.rs).            *)
(*                                                                         *)
(* Conventions.  Text is a sequence of one-character strings, so that      *)
(* parsing, trimming and case folding are computed, not assumed.           *)
(* Option<T> is a sequence of length 0 (None) or 1 (Some(x)).  An f64 read *)
(* from text is an integer number of tenths; the texts used carry at most  *)
(* one fractional digit, 0 or 5, which f64 represents exactly, so f64      *)
(* arithmetic on them is exact arithmetic on tenths.                       *)
(***************************************************************************)
EXTENDS Integers, Sequences, FiniteSets, TLC

VARIABLES worker, store, runs, events, calls, last, clock, inbox, task

vars == <<worker, store, runs, events, calls, last, clock, inbox, task>>

(* ------------------------------ bounds -------------------------------- *)

\* Largest duration, in seconds, among the generated mm:ss texts.
MaxSecs == 11

\* Largest whole damage figure among the generated number texts.
MaxDamage == 2

(* ------------------------------ Option -------------------------------- *)

None == <<>>

Some(x) == <<x>>

IsSome(o) == o # <<>>

Unwrap(o) == o[1]

(* ------------------------------- text --------------------------------- *)

DigitSeq == <<"0", "1", "2", "3", "4", "5", "6", "7", "8", "9">>

Digits == {DigitSeq[i] : i \in 1..10}

DigitVal(c) == (CHOOSE i \in 1..10 : DigitSeq[i] = c) - 1

IsWhitespace(c) == c \in {" ", "\t"}

RECURSIVE TrimStart(_)
TrimStart(s) ==
  IF s # <<>> /\ IsWhitespace(Head(s)) THEN TrimStart(Tail(s)) ELSE s

RECURSIVE TrimEnd(_)
TrimEnd(s) ==
  IF s # <<>> /\ IsWhitespace(s[Len(s)])
  THEN TrimEnd(SubSeq(s, 1, Len(s) - 1))
  ELSE s

Trim(s) == TrimEnd(TrimStart(s))

Contains(s, c) == \E i \in 1..Len(s) : s[i] = c

\* str::split(sep): the segments between separators; "" splits to one empty segment.
RECURSIVE SplitFrom(_, _, _, _)
SplitFrom(s, sep, i, cur) ==
  IF i > Len(s) THEN <<cur>>
  ELSE IF s[i] = sep THEN <<cur>> \o SplitFrom(s, sep, i + 1, <<>>)
  ELSE SplitFrom(s, sep, i + 1, Append(cur, s[i]))

Split(s, sep) == SplitFrom(s, sep, 1, <<>>)

RECURSIVE DigitsValue(_, _)
DigitsValue(s, acc) ==
  IF s = <<>> THEN acc ELSE DigitsValue(Tail(s), acc * 10 + DigitVal(Head(s)))

AllDigits(s) == \A i \in 1..Len(s) : s[i] \in Digits

\* str::parse::<u64>: an optional leading '+', then one or more digits.
\* (Values stay far below 2^64, so the overflow error does not arise.)
ParseU64(part) ==
  LET body == IF part # <<>> /\ Head(part) = "+" THEN Tail(part) ELSE part
  IN IF body # <<>> /\ AllDigits(body) THEN Some(DigitsValue(body, 0)) ELSE None

RECURSIVE DurationFold(_, _, _)
DurationFold(parts, value, multiplier) ==
  IF parts = <<>> THEN Some(value)
  ELSE LET part == Trim(parts[Len(parts)])
           rest == SubSeq(parts, 1, Len(parts) - 1)
       IN IF part = <<>> \/ Contains(part, "-") THEN None
          ELSE LET parsed == ParseU64(part)
               IN IF parsed = None THEN None
                  ELSE DurationFold(rest, value + Unwrap(parsed) * multiplier,
                                    multiplier * 60)

parse_duration_secs(s) ==
  IF Trim(s) = <<>> THEN None
  ELSE LET parts == Split(Trim(s), ":")
       IN IF Len(parts) = 0 \/ Len(parts) > 3 THEN None
          ELSE DurationFold(parts, 0, 1)

\* str::parse::<f64> restricted to the characters parse_number keeps:
\* [sign] (digits+ | digits+ '.' digits* | digits* '.' digits+), in tenths.
ParseF64(buf) ==
  LET signed == buf # <<>> /\ Head(buf) \in {"+", "-"}
      body == IF signed THEN Tail(buf) ELSE buf
      dots == {i \in 1..Len(body) : body[i] = "."}
      dot == IF dots = {} THEN Len(body) + 1 ELSE CHOOSE i \in dots : TRUE
      whole == SubSeq(body, 1, dot - 1)
      frac == SubSeq(body, dot + 1, Len(body))
      ok == /\ Cardinality(dots) <= 1
            /\ AllDigits(whole) /\ AllDigits(frac)
            /\ Len(whole) + Len(frac) > 0
      magnitude == DigitsValue(whole, 0) * 10
                   + (IF frac = <<>> THEN 0 ELSE DigitVal(frac[1]))
  IN IF ~ok THEN None
     ELSE Some(IF signed /\ Head(buf) = "-" THEN 0 - magnitude ELSE magnitude)

parse_number(s) ==
  LET buf == SelectSeq(s, LAMBDA ch : ch \in Digits \/ ch \in {".", "+", "-"})
  IN IF buf = <<>> THEN 0
     ELSE IF ParseF64(buf) = None THEN 0 ELSE Unwrap(ParseF64(buf))

\* The f64 value 1.0, in tenths.
One == 10

(* --------------------------- feed text makers ------------------------- *)

TwoDigits(n) == <<DigitSeq[(n \div 10) + 1], DigitSeq[(n % 10) + 1]>>

\* The feed's mm:ss duration text.
FormatDuration(n) == TwoDigits(n \div 60) \o <<":">> \o TwoDigits(n % 60)

RECURSIVE FormatNumber(_)
FormatNumber(n) ==
  IF n < 10 THEN <<DigitSeq[n + 1]>>
  ELSE Append(FormatNumber(n \div 10), DigitSeq[(n % 10) + 1])

(* ------------------------ snapshots, accumulator ---------------------- *)

EncounterSummary(title, zone, duration, encdps, damage, enchps, healed, is_active) ==
  [title |-> title, zone |-> zone, duration |-> duration, encdps |-> encdps,
   damage |-> damage, enchps |-> enchps, healed |-> healed, is_active |-> is_active]

EncounterSnapshot(encounter, rows, raw, received_ms) ==
  [encounter |-> encounter, rows |-> rows, raw |-> raw, received_ms |-> received_ms]

\* EncounterFrame::new on the fields of the snapshot.
FrameOf(snapshot) ==
  [received_ms |-> snapshot.received_ms, encounter |-> snapshot.encounter,
   rows |-> snapshot.rows, raw |-> snapshot.raw]

from_snapshot(snapshot) ==
  [first_seen_ms |-> snapshot.received_ms,
   last_seen_ms |-> snapshot.received_ms,
   latest_summary |-> snapshot.encounter,
   latest_rows |-> snapshot.rows,
   last_raw |-> snapshot.raw,
   saw_active |-> snapshot.encounter.is_active,
   frames |-> <<FrameOf(snapshot)>>]

\* Mutant of update: the new frame replaces the frame list instead of joining it.
M_update_replaces_frames(active, snapshot) ==
  [first_seen_ms |-> active.first_seen_ms,
   last_seen_ms |-> snapshot.received_ms,
   latest_summary |-> snapshot.encounter,
   latest_rows |-> snapshot.rows,
   last_raw |-> snapshot.raw,
   saw_active |-> active.saw_active \/ snapshot.encounter.is_active,
   frames |-> <<FrameOf(snapshot)>>]

update(active, snapshot) ==
  [first_seen_ms |-> active.first_seen_ms,
   last_seen_ms |-> snapshot.received_ms,
   latest_summary |-> snapshot.encounter,
   latest_rows |-> snapshot.rows,
   last_raw |-> snapshot.raw,
   saw_active |-> active.saw_active \/ snapshot.encounter.is_active,
   frames |-> Append(active.frames, FrameOf(snapshot))]

\* Mutant of should_rollover: the incoming active flag is not consulted.
M_should_rollover_any_tick(active, incoming) ==
  LET previous == active.latest_summary
      next == incoming.encounter
      prev_secs == parse_duration_secs(previous.duration)
      next_secs == parse_duration_secs(next.duration)
  IN \/ ~active.saw_active
     \/ /\ IsSome(prev_secs) /\ IsSome(next_secs)
        /\ \/ Unwrap(next_secs) + 2 < Unwrap(prev_secs)
           \/ Unwrap(prev_secs) > 10 /\ Unwrap(next_secs) = 0
     \/ parse_number(next.damage) + One < parse_number(previous.damage)

\* Mutant of should_rollover: the backward tolerance is one second, not two.
M_should_rollover_tight(active, incoming) ==
  LET previous == active.latest_summary
      next == incoming.encounter
      prev_secs == parse_duration_secs(previous.duration)
      next_secs == parse_duration_secs(next.duration)
  IN /\ next.is_active
     /\ \/ ~active.saw_active
        \/ /\ IsSome(prev_secs) /\ IsSome(next_secs)
           /\ \/ Unwrap(next_secs) + 1 < Unwrap(prev_secs)
              \/ Unwrap(prev_secs) > 10 /\ Unwrap(next_secs) = 0
        \/ parse_number(next.damage) + One < parse_number(previous.damage)

\* Mutant of should_rollover: the damage rule sits inside the parsed-durations branch.
M_should_rollover_damage_needs_duration(active, incoming) ==
  LET previous == active.latest_summary
      next == incoming.encounter
      prev_secs == parse_duration_secs(previous.duration)
      next_secs == parse_duration_secs(next.duration)
  IN /\ next.is_active
     /\ \/ ~active.saw_active
        \/ /\ IsSome(prev_secs) /\ IsSome(next_secs)
           /\ \/ Unwrap(next_secs) + 2 < Unwrap(prev_secs)
              \/ Unwrap(prev_secs) > 10 /\ Unwrap(next_secs) = 0
              \/ parse_number(next.damage) + One < parse_number(previous.damage)

\* Mutant of should_rollover: a changed zone is taken for a new encounter.
M_should_rollover_on_rename(active, incoming) ==
  LET previous == active.latest_summary
      next == incoming.encounter
      prev_secs == parse_duration_secs(previous.duration)
      next_secs == parse_duration_secs(next.duration)
  IN /\ next.is_active
     /\ \/ ~active.saw_active
        \/ next.zone # previous.zone
        \/ /\ IsSome(prev_secs) /\ IsSome(next_secs)
           /\ \/ Unwrap(next_secs) + 2 < Unwrap(prev_secs)
              \/ Unwrap(prev_secs) > 10 /\ Unwrap(next_secs) = 0
        \/ parse_number(next.damage) + One < parse_number(previous.damage)

should_rollover(active, incoming) ==
  LET previous == active.latest_summary
      next == incoming.encounter
      prev_secs == parse_duration_secs(previous.duration)
      next_secs == parse_duration_secs(next.duration)
      prev_damage == parse_number(previous.damage)
      next_damage == parse_number(next.damage)
  IN /\ next.is_active
     /\ \/ ~active.saw_active
        \/ /\ IsSome(prev_secs) /\ IsSome(next_secs)
           /\ \/ Unwrap(next_secs) + 2 < Unwrap(prev_secs)
              \/ Unwrap(prev_secs) > 10 /\ Unwrap(next_secs) = 0
        \/ next_damage + One < prev_damage

snapshot_has_activity(snapshot) ==
  \/ snapshot.encounter.is_active
  \/ parse_number(snapshot.encounter.damage) > 0
  \/ parse_number(snapshot.encounter.healed) > 0
  \/ parse_number(snapshot.encounter.encdps) > 0
  \/ parse_number(snapshot.encounter.enchps) > 0
  \/ \E i \in 1..Len(snapshot.rows) :
        \/ snapshot.rows[i].damage > 0 \/ snapshot.rows[i].healed > 0
        \/ snapshot.rows[i].encdps > 0 \/ snapshot.rows[i].enchps > 0

(* ------------------------------ catalog ------------------------------- *)

\* char::to_lowercase on the letters the zone texts use.
Lower(c) ==
  CASE c = "S" -> "s"
    [] c = "A" -> "a"
    [] c = "C" -> "c"
    [] c = "M" -> "m"
    [] c = "L" -> "l"
    [] OTHER -> c

to_lowercase(s) == [i \in 1..Len(s) |-> Lower(s[i])]

RECURSIVE CollapseFrom(_, _, _, _)
CollapseFrom(input, i, buf, in_whitespace) ==
  IF i > Len(input) THEN buf
  ELSE IF IsWhitespace(input[i])
       THEN CollapseFrom(input, i + 1,
                         IF in_whitespace THEN buf ELSE Append(buf, " "), TRUE)
       ELSE CollapseFrom(input, i + 1, Append(buf, input[i]), FALSE)

collapse_whitespace(input) == Trim(CollapseFrom(input, 1, <<>>, FALSE))

\* Mutant of normalize_zone: the case is kept.
M_normalize_zone_keeps_case(zone) ==
  LET collapsed == collapse_whitespace(Trim(zone))
  IN IF collapsed = <<>> THEN None ELSE Some(collapsed)

normalize_zone(zone) ==
  LET collapsed == collapse_whitespace(Trim(zone))
  IN IF collapsed = <<>> THEN None ELSE Some(to_lowercase(collapsed))

MapInsert(m, k, v) == [x \in DOMAIN m \cup {k} |-> IF x = k THEN v ELSE m[x]]

\* from_raw over the document's zone names in the order the map yields them.
RECURSIVE FromRawFold(_, _)
FromRawFold(zones, canonical_by_norm) ==
  IF zones = <<>> THEN canonical_by_norm
  ELSE LET zone == Head(zones)
           normalized == normalize_zone(zone)
       IN IF normalized = None \/ Unwrap(normalized) \in DOMAIN canonical_by_norm
          THEN FromRawFold(Tail(zones), canonical_by_norm)
          ELSE FromRawFold(Tail(zones),
                           MapInsert(canonical_by_norm, Unwrap(normalized),
                                     collapse_whitespace(Trim(zone))))

from_raw(zones) == [canonical_by_norm |-> FromRawFold(zones, [k \in {} |-> <<>>])]

canonical_zone(catalog, zone) ==
  LET key == normalize_zone(zone)
  IN IF key = None THEN None
     ELSE IF Unwrap(key) \in DOMAIN catalog.canonical_by_norm
          THEN Some(catalog.canonical_by_norm[Unwrap(key)])
          ELSE None

(* --------------------------- catalog loading -------------------------- *)

\* The places a catalog file is looked for, in the order locate_default_file
\* tries them: the primary and the legacy environment variable, the working
\* directory, the directory of the executable.
SourceOrder == <<"NEKOMATA_DUNGEON_CATALOG", "IINACT_DUNGEON_CATALOG",
                 "dungeon-catalog.json", "exe/dungeon-catalog.json">>

EmbeddedCatalog == "EMBEDDED_CATALOG"

\* What is at a place: nothing (the variable is unset, or no file is at the
\* path), a file that does not load, or a file that loads.
Exists(file) == file \in {"unparseable", "parseable"}

\* The first place in the order with a file at it.
RECURSIVE LocateFrom(_, _)
LocateFrom(env, i) ==
  IF i > Len(SourceOrder) THEN None
  ELSE IF Exists(env[SourceOrder[i]]) THEN Some(SourceOrder[i])
  ELSE LocateFrom(env, i + 1)

locate_default_file(env) == LocateFrom(env, 1)

\* load_from_path / from_str: Ok with the catalog of that source, or Err.
load_from(env, source) ==
  IF env[source] = "parseable" THEN [result |-> "Ok", source |-> source]
  ELSE [result |-> "Err"]

\* Mutant of load_default: after a file that does not load, the places after it
\* are tried before the embedded document.
RECURSIVE M_TryFrom(_, _)
M_TryFrom(env, i) ==
  IF i > Len(SourceOrder) THEN load_from(env, EmbeddedCatalog)
  ELSE IF env[SourceOrder[i]] = "parseable" THEN load_from(env, SourceOrder[i])
  ELSE M_TryFrom(env, i + 1)

M_load_default_tries_next(env) == M_TryFrom(env, 1)

load_default(env) ==
  LET path == locate_default_file(env)
  IN IF IsSome(path) /\ load_from(env, Unwrap(path)).result = "Ok"
     THEN load_from(env, Unwrap(path))
     ELSE load_from(env, EmbeddedCatalog)

(* ------------------------- util: titles, party ------------------------ *)

resolve_title(record) ==
  LET primary == Trim(record.encounter.title)
      zone == Trim(record.encounter.zone)
  IN IF primary # <<>> THEN primary
     ELSE IF zone # <<>> THEN zone
     ELSE <<"U", "n", "k", "n", "o", "w", "n">>

\* Byte order of the characters that occur in names and jobs.
CharOrder == <<" ", "A", "B", "N", "W", "|">>

CharCode(c) == CHOOSE i \in 1..Len(CharOrder) : CharOrder[i] = c

RECURSIVE StrLess(_, _)
StrLess(a, b) ==
  IF b = <<>> THEN FALSE
  ELSE IF a = <<>> THEN TRUE
  ELSE IF Head(a) # Head(b) THEN CharCode(Head(a)) < CharCode(Head(b))
  ELSE StrLess(Tail(a), Tail(b))

RECURSIVE InsertSorted(_, _)
InsertSorted(sorted, e) ==
  IF sorted = <<>> THEN <<e>>
  ELSE IF StrLess(e, Head(sorted)) THEN <<e>> \o sorted
  ELSE <<Head(sorted)>> \o InsertSorted(Tail(sorted), e)

RECURSIVE SortEntries(_)
SortEntries(entries) ==
  IF entries = <<>> THEN <<>>
  ELSE InsertSorted(SortEntries(Tail(entries)), Head(entries))

\* Vec::dedup: drops every element equal to its predecessor.
RECURSIVE Dedup(_)
Dedup(entries) ==
  IF Len(entries) < 2 THEN entries
  ELSE IF entries[1] = entries[2] THEN Dedup(Tail(entries))
  ELSE <<entries[1]>> \o Dedup(Tail(entries))

\* Mutant of party_signature: the entries are deduplicated but not sorted.
M_party_signature_unsorted(rows) ==
  Dedup([i \in 1..Len(rows) |-> Trim(rows[i].name) \o <<"|">> \o Trim(rows[i].job)])

party_signature(rows) ==
  Dedup(SortEntries([i \in 1..Len(rows) |->
                       Trim(rows[i].name) \o <<"|">> \o Trim(rows[i].job)]))

(* -------------------------- dungeon aggregator ------------------------ *)

Active(zone) == [state |-> "Active", zone |-> zone]

Inactive == [state |-> "Inactive"]

DungeonRecorderUpdate(aggregates, zone_state) ==
  [aggregates |-> aggregates, zone_state |-> zone_state]

EmptyUpdate == DungeonRecorderUpdate(<<>>, None)

RECURSIVE DedupFrom(_, _, _, _, _)
DedupFrom(keys, titles, idx, filtered_keys, filtered_titles) ==
  IF idx > Len(keys)
  THEN [keys |-> filtered_keys, titles |-> filtered_titles]
  ELSE IF \E j \in 1..Len(filtered_keys) : filtered_keys[j] = keys[idx]
       THEN DedupFrom(keys, titles, idx + 1, filtered_keys, filtered_titles)
       ELSE DedupFrom(keys, titles, idx + 1, Append(filtered_keys, keys[idx]),
                      IF idx <= Len(titles)
                      THEN Append(filtered_titles, titles[idx])
                      ELSE filtered_titles)

\* Mutant of dedup_keys: the keys are filtered, the titles are not.
M_dedup_keys_keeps_titles(keys, titles) ==
  [keys |-> DedupFrom(keys, titles, 1, <<>>, <<>>).keys, titles |-> titles]

dedup_keys(keys, titles) == DedupFrom(keys, titles, 1, <<>>, <<>>)

\* Mutant of append: the damage total is replaced by the record's, not extended.
M_append_overwrites_damage(session, record, key) ==
  LET duration == parse_duration_secs(record.encounter.duration)
  IN [session EXCEPT
        !.last_seen_ms = record.last_seen_ms,
        !.child_keys = Append(@, key),
        !.child_titles = Append(@, resolve_title(record)),
        !.total_duration_secs = IF IsSome(duration) THEN @ + Unwrap(duration) ELSE @,
        !.total_damage = parse_number(record.encounter.damage),
        !.total_healed = @ + parse_number(record.encounter.healed)]

\* Mutant of append: the started time and the party are taken from the record.
M_append_reseeds(session, record, key) ==
  LET duration == parse_duration_secs(record.encounter.duration)
  IN [session EXCEPT
        !.started_ms = record.first_seen_ms,
        !.party_signature = party_signature(record.rows),
        !.last_seen_ms = record.last_seen_ms,
        !.child_keys = Append(@, key),
        !.child_titles = Append(@, resolve_title(record)),
        !.total_duration_secs = IF IsSome(duration) THEN @ + Unwrap(duration) ELSE @,
        !.total_damage = @ + parse_number(record.encounter.damage),
        !.total_healed = @ + parse_number(record.encounter.healed)]

append(session, record, key) ==
  LET duration == parse_duration_secs(record.encounter.duration)
  IN [session EXCEPT
        !.last_seen_ms = record.last_seen_ms,
        !.child_keys = Append(@, key),
        !.child_titles = Append(@, resolve_title(record)),
        !.total_duration_secs = IF IsSome(duration) THEN @ + Unwrap(duration) ELSE @,
        !.total_damage = @ + parse_number(record.encounter.damage),
        !.total_healed = @ + parse_number(record.encounter.healed)]

\* Mutant of DungeonSessionNew: the seeding record is not appended.
M_DungeonSessionNew_unseeded(zone, record, key) ==
  [zone |-> zone,
   started_ms |-> record.first_seen_ms,
   last_seen_ms |-> record.last_seen_ms,
   party_signature |-> party_signature(record.rows),
   total_duration_secs |-> 0,
   total_damage |-> 0,
   total_healed |-> 0,
   child_keys |-> <<>>,
   child_titles |-> <<>>]

DungeonSessionNew(zone, record, key) ==
  append([zone |-> zone,
          started_ms |-> record.first_seen_ms,
          last_seen_ms |-> record.last_seen_ms,
          party_signature |-> party_signature(record.rows),
          total_duration_secs |-> 0,
          total_damage |-> 0,
          total_healed |-> 0,
          child_keys |-> <<>>,
          child_titles |-> <<>>],
         record, key)

\* Mutant of into_record: the rate is computed whatever the duration total is.
M_into_record_unguarded_rate(session, incomplete) ==
  LET d == dedup_keys(session.child_keys, session.child_titles)
  IN [zone |-> session.zone,
      started_ms |-> session.started_ms,
      last_seen_ms |-> session.last_seen_ms,
      party_signature |-> session.party_signature,
      total_duration_secs |-> session.total_duration_secs,
      total_damage |-> session.total_damage,
      total_healed |-> session.total_healed,
      total_encdps |-> [num |-> session.total_damage,
                        den |-> session.total_duration_secs],
      child_keys |-> d.keys,
      child_titles |-> d.titles,
      incomplete |-> incomplete]

\* total_encdps is the quotient num/den of total damage (tenths) by seconds.
into_record(session, incomplete) ==
  LET d == dedup_keys(session.child_keys, session.child_titles)
  IN [zone |-> session.zone,
      started_ms |-> session.started_ms,
      last_seen_ms |-> session.last_seen_ms,
      party_signature |-> session.party_signature,
      total_duration_secs |-> session.total_duration_secs,
      total_damage |-> session.total_damage,
      total_healed |-> session.total_healed,
      total_encdps |-> IF session.total_duration_secs > 0
                       THEN [num |-> session.total_damage,
                             den |-> session.total_duration_secs]
                       ELSE [num |-> 0, den |-> 1],
      child_keys |-> d.keys,
      child_titles |-> d.titles,
      incomplete |-> incomplete]

\* Mutant of DungeonRecorderNew: the flag is taken as given, catalog or not.
M_DungeonRecorderNew_trusts_flag(catalog, enabled) ==
  [catalog |-> catalog, enabled |-> enabled, session |-> None]

DungeonRecorderNew(catalog, enabled) ==
  [catalog |-> catalog, enabled |-> enabled /\ IsSome(catalog), session |-> None]

\* Each method returns the recorder after the call and the value returned.
end_session(self, incomplete) ==
  IF self.session = None THEN [recorder |-> self, aggregate |-> None]
  ELSE [recorder |-> [self EXCEPT !.session = None],
        aggregate |-> Some(into_record(Unwrap(self.session), incomplete))]

\* Mutant of set_enabled: disabling sets the flag and leaves the session open.
M_set_enabled_keeps_session(self, enabled) ==
  [recorder |-> [self EXCEPT !.enabled = enabled /\ IsSome(self.catalog)],
   update |-> EmptyUpdate]

set_enabled(self, enabled) ==
  LET effective == enabled /\ IsSome(self.catalog)
      ended == end_session(self, TRUE)
  IN IF ~effective /\ IsSome(ended.aggregate)
     THEN [recorder |-> [ended.recorder EXCEPT !.enabled = effective],
           update |-> DungeonRecorderUpdate(ended.aggregate, Some(Inactive))]
     ELSE [recorder |-> [self EXCEPT !.enabled = effective], update |-> EmptyUpdate]

\* Mutant of on_encounter: on a zone change the record joins the old session
\* before that session is closed.
M_on_encounter_change_joins_old(self, record, key) ==
  IF ~self.enabled \/ self.catalog = None
  THEN [recorder |-> self, update |-> EmptyUpdate]
  ELSE
    LET canonical == canonical_zone(Unwrap(self.catalog), record.encounter.zone)
        ended == end_session(self, FALSE)
    IN IF canonical = None
       THEN IF IsSome(self.session)
            THEN [recorder |-> ended.recorder,
                  update |-> DungeonRecorderUpdate(ended.aggregate, Some(Inactive))]
            ELSE [recorder |-> self, update |-> EmptyUpdate]
       ELSE
         LET zone == Unwrap(canonical)
             fresh == Some(DungeonSessionNew(zone, record, key))
         IN IF IsSome(self.session)
            THEN IF Unwrap(self.session).zone # zone
                 THEN [recorder |-> [self EXCEPT !.session = fresh],
                       update |-> DungeonRecorderUpdate(
                         Some(into_record(append(Unwrap(self.session), record, key),
                                          FALSE)),
                         Some(Active(zone)))]
                 ELSE [recorder |->
                         [self EXCEPT !.session =
                            Some(append(Unwrap(self.session), record, key))],
                       update |-> EmptyUpdate]
            ELSE [recorder |-> [self EXCEPT !.session = fresh],
                  update |-> DungeonRecorderUpdate(<<>>, Some(Active(zone)))]

\* Mutant of on_encounter: a record with no canonical zone leaves the session open.
M_on_encounter_unmatched_ignored(self, record, key) ==
  IF ~self.enabled \/ self.catalog = None
  THEN [recorder |-> self, update |-> EmptyUpdate]
  ELSE
    LET canonical == canonical_zone(Unwrap(self.catalog), record.encounter.zone)
        ended == end_session(self, FALSE)
    IN IF canonical = None
       THEN [recorder |-> self, update |-> EmptyUpdate]
       ELSE
         LET zone == Unwrap(canonical)
             fresh == Some(DungeonSessionNew(zone, record, key))
         IN IF IsSome(self.session)
            THEN IF Unwrap(self.session).zone # zone
                 THEN [recorder |-> [ended.recorder EXCEPT !.session = fresh],
                       update |-> DungeonRecorderUpdate(ended.aggregate,
                                                        Some(Active(zone)))]
                 ELSE [recorder |->
                         [self EXCEPT !.session =
                            Some(append(Unwrap(self.session), record, key))],
                       update |-> EmptyUpdate]
            ELSE [recorder |-> [self EXCEPT !.session = fresh],
                  update |-> DungeonRecorderUpdate(<<>>, Some(Active(zone)))]

on_encounter(self, record, key) ==
  IF ~self.enabled \/ self.catalog = None
  THEN [recorder |-> self, update |-> EmptyUpdate]
  ELSE
    LET canonical == canonical_zone(Unwrap(self.catalog), record.encounter.zone)
        ended == end_session(self, FALSE)
    IN IF canonical = None
       THEN IF IsSome(self.session)
            THEN [recorder |-> ended.recorder,
                  update |-> DungeonRecorderUpdate(ended.aggregate, Some(Inactive))]
            ELSE [recorder |-> self, update |-> EmptyUpdate]
       ELSE
         LET zone == Unwrap(canonical)
             fresh == Some(DungeonSessionNew(zone, record, key))
         IN IF IsSome(self.session)
            THEN IF Unwrap(self.session).zone # zone
                 THEN [recorder |-> [ended.recorder EXCEPT !.session = fresh],
                       update |-> DungeonRecorderUpdate(ended.aggregate,
                                                        Some(Active(zone)))]
                 ELSE [recorder |->
                         [self EXCEPT !.session =
                            Some(append(Unwrap(self.session), record, key))],
                       update |-> EmptyUpdate]
            ELSE [recorder |-> [self EXCEPT !.session = fresh],
                  update |-> DungeonRecorderUpdate(<<>>, Some(Active(zone)))]

\* Mutant of flush: the session is closed as incomplete whatever flag is given.
M_flush_always_incomplete(self, incomplete) ==
  LET ended == end_session(self, TRUE)
  IN IF IsSome(ended.aggregate)
     THEN [recorder |-> ended.recorder,
           update |-> DungeonRecorderUpdate(ended.aggregate, Some(Inactive))]
     ELSE [recorder |-> self, update |-> EmptyUpdate]

flush(self, incomplete) ==
  LET ended == end_session(self, incomplete)
  IN IF IsSome(ended.aggregate)
     THEN [recorder |-> ended.recorder,
           update |-> DungeonRecorderUpdate(ended.aggregate, Some(Inactive))]
     ELSE [recorder |-> self, update |-> EmptyUpdate]

(* -------------------------- encounter records ------------------------- *)

\* The record of a closed accumulator; now is the clock reading at closing.
from_active(active, now) ==
  [stored_ms |-> now,
   first_seen_ms |-> active.first_seen_ms,
   last_seen_ms |-> active.last_seen_ms,
   encounter |-> active.latest_summary,
   rows |-> active.latest_rows,
   raw_last |-> IF active.frames # <<>>
                THEN Some(active.frames[Len(active.frames)].raw)
                ELSE Some(active.last_raw),
   snapshots |-> Len(active.frames),
   saw_active |-> active.saw_active,
   frames |-> active.frames]

(* ------------------------------- worker ------------------------------- *)

\* How a blocking store call ends: it returns Ok, it returns Err, or its task fails.
Outcome == {"ok", "storage", "join"}

ErrorKind(outcome) == IF outcome = "storage" THEN "Storage" ELSE "History"

SystemError(kind) == [event |-> "SystemError", kind |-> kind]

DungeonSessionUpdate(active_zone) ==
  [event |-> "DungeonSessionUpdate", active_zone |-> active_zone]

\* The key the store assigns to an appended record.
StoreKey(stored) == Len(stored) + 1

RecorderWorkerNew(dungeon_catalog, dungeon_mode_enabled) ==
  [current |-> None,
   dungeon |-> DungeonRecorderNew(dungeon_catalog, dungeon_mode_enabled)]

\* A handler maps the state it starts in to the set of states it can end in, one
\* for each way its store calls can end.  st.calls lists the calls it has made.
Called(st, call) == [st EXCEPT !.calls = Append(@, call)]

Send(st, event) ==
  Called([st EXCEPT !.events = Append(@, event)], [call |-> "send", event |-> event])

report_error(st, kind) == Send(st, SystemError(kind))

persist_dungeon_record(st, record) ==
  { LET made == Called(st, [call |-> "append_dungeon", record |-> record,
                            outcome |-> o])
    IN IF o = "ok" THEN [made EXCEPT !.runs = Append(@, record)]
       ELSE report_error(made, ErrorKind(o))
    : o \in Outcome }

RECURSIVE PersistAll(_, _)
PersistAll(st, aggregates) ==
  IF aggregates = <<>> THEN {st}
  ELSE UNION { PersistAll(s, Tail(aggregates)) :
               s \in persist_dungeon_record(st, Head(aggregates)) }

\* Mutant of handle_dungeon_update: the notification is sent before the aggregates
\* are persisted.
M_handle_dungeon_update_notifies_first(st, upd) ==
  PersistAll(IF upd.zone_state = None THEN st
             ELSE IF Unwrap(upd.zone_state).state = "Active"
                  THEN Send(st, DungeonSessionUpdate(Some(Unwrap(upd.zone_state).zone)))
                  ELSE Send(st, DungeonSessionUpdate(None)),
             upd.aggregates)

\* Mutant of handle_dungeon_update: the end of a run is not notified.
M_handle_dungeon_update_drops_inactive(st, upd) ==
  { IF upd.zone_state # None /\ Unwrap(upd.zone_state).state = "Active"
    THEN Send(s, DungeonSessionUpdate(Some(Unwrap(upd.zone_state).zone)))
    ELSE s
    : s \in PersistAll(st, upd.aggregates) }

handle_dungeon_update(st, upd) ==
  { IF upd.zone_state = None THEN s
    ELSE IF Unwrap(upd.zone_state).state = "Active"
         THEN Send(s, DungeonSessionUpdate(Some(Unwrap(upd.zone_state).zone)))
         ELSE Send(s, DungeonSessionUpdate(None))
    : s \in PersistAll(st, upd.aggregates) }

\* Mutant of flush_active: the empty-encounter discard is missing.
M_flush_active_keeps_empty(st, now) ==
  IF st.worker.current = None THEN {st}
  ELSE
    LET record == from_active(Unwrap(st.worker.current), now)
        taken == [st EXCEPT !.worker.current = None]
    IN UNION {
         LET key == StoreKey(taken.store)
             made == Called(taken, [call |-> "append", record |-> record,
                                    outcome |-> o, key |-> key])
         IN IF o = "ok"
            THEN LET r == on_encounter(made.worker.dungeon, record, key)
                 IN handle_dungeon_update(
                      Called([made EXCEPT
                                !.store = Append(@, [key |-> key, record |-> record]),
                                !.worker.dungeon = r.recorder],
                             [call |-> "on_encounter", key |-> key,
                              update |-> r.update]),
                      r.update)
            ELSE {report_error(made, ErrorKind(o))}
         : o \in Outcome }

\* Mutant of flush_active: the record is forwarded to the aggregator without
\* waiting for the store's answer.
M_flush_active_forwards_unstored(st, now) ==
  IF st.worker.current = None THEN {st}
  ELSE
    LET record == from_active(Unwrap(st.worker.current), now)
        taken == [st EXCEPT !.worker.current = None]
    IN IF ~record.saw_active /\ record.rows = <<>> THEN {taken}
       ELSE UNION {
         LET key == StoreKey(taken.store)
             made == Called(taken, [call |-> "append", record |-> record,
                                    outcome |-> o, key |-> key])
             kept == IF o = "ok"
                     THEN [made EXCEPT
                             !.store = Append(@, [key |-> key, record |-> record])]
                     ELSE report_error(made, ErrorKind(o))
             r == on_encounter(kept.worker.dungeon, record, key)
         IN handle_dungeon_update(
              Called([kept EXCEPT !.worker.dungeon = r.recorder],
                     [call |-> "on_encounter", key |-> key, update |-> r.update]),
              r.update)
         : o \in Outcome }

\* Mutant of flush_active: when the store call fails the accumulator is put back.
M_flush_active_retains_failed(st, now) ==
  IF st.worker.current = None THEN {st}
  ELSE
    LET record == from_active(Unwrap(st.worker.current), now)
        taken == [st EXCEPT !.worker.current = None]
    IN IF ~record.saw_active /\ record.rows = <<>> THEN {taken}
       ELSE UNION {
         LET key == StoreKey(taken.store)
             made == Called(taken, [call |-> "append", record |-> record,
                                    outcome |-> o, key |-> key])
         IN IF o = "ok"
            THEN LET r == on_encounter(made.worker.dungeon, record, key)
                 IN handle_dungeon_update(
                      Called([made EXCEPT
                                !.store = Append(@, [key |-> key, record |-> record]),
                                !.worker.dungeon = r.recorder],
                             [call |-> "on_encounter", key |-> key,
                              update |-> r.update]),
                      r.update)
            ELSE {[report_error(made, ErrorKind(o)) EXCEPT
                     !.worker.current = st.worker.current]}
         : o \in Outcome }

flush_active(st, now) ==
  IF st.worker.current = None THEN {st}
  ELSE
    LET record == from_active(Unwrap(st.worker.current), now)
        taken == [st EXCEPT !.worker.current = None]
    IN IF ~record.saw_active /\ record.rows = <<>> THEN {taken}
       ELSE UNION {
         LET key == StoreKey(taken.store)
             made == Called(taken, [call |-> "append", record |-> record,
                                    outcome |-> o, key |-> key])
         IN IF o = "ok"
            THEN LET r == on_encounter(made.worker.dungeon, record, key)
                 IN handle_dungeon_update(
                      Called([made EXCEPT
                                !.store = Append(@, [key |-> key, record |-> record]),
                                !.worker.dungeon = r.recorder],
                             [call |-> "on_encounter", key |-> key,
                              update |-> r.update]),
                      r.update)
            ELSE {report_error(made, ErrorKind(o))}
         : o \in Outcome }

Merge(st, snapshot) ==
  [st EXCEPT !.worker.current =
     IF IsSome(@) THEN Some(update(Unwrap(@), snapshot))
     ELSE Some(from_snapshot(snapshot))]

\* Mutant of on_snapshot: an inactive latest summary does not close the accumulator.
M_on_snapshot_no_close(st, snapshot, now) ==
  IF /\ st.worker.current = None
     /\ (~snapshot.encounter.is_active \/ ~snapshot_has_activity(snapshot))
  THEN {st}
  ELSE
    LET rolled == IF /\ IsSome(st.worker.current)
                     /\ should_rollover(Unwrap(st.worker.current), snapshot)
                  THEN flush_active(st, now)
                  ELSE {st}
    IN { Merge(s, snapshot) : s \in rolled }

\* Mutant of on_snapshot: the snapshot is merged before the boundary closes the
\* accumulator, and the accumulator is then reopened from it.
M_on_snapshot_merge_first(st, snapshot, now) ==
  IF /\ st.worker.current = None
     /\ (~snapshot.encounter.is_active \/ ~snapshot_has_activity(snapshot))
  THEN {st}
  ELSE
    LET rolled == IF /\ IsSome(st.worker.current)
                     /\ should_rollover(Unwrap(st.worker.current), snapshot)
                  THEN { [s EXCEPT !.worker.current = Some(from_snapshot(snapshot))] :
                         s \in flush_active(Merge(st, snapshot), now) }
                  ELSE {Merge(st, snapshot)}
    IN UNION {
         IF ~Unwrap(s.worker.current).latest_summary.is_active
         THEN flush_active(s, now)
         ELSE {s}
         : s \in rolled }

\* Mutant of on_snapshot: with no accumulator open, an inactive snapshot that
\* shows activity opens one.
M_on_snapshot_opens_on_idle(st, snapshot, now) ==
  IF /\ st.worker.current = None
     /\ ~snapshot.encounter.is_active
     /\ parse_number(snapshot.encounter.damage) = 0
  THEN {st}
  ELSE
    LET rolled == IF /\ IsSome(st.worker.current)
                     /\ should_rollover(Unwrap(st.worker.current), snapshot)
                  THEN flush_active(st, now)
                  ELSE {st}
    IN UNION {
         LET merged == Merge(s, snapshot)
         IN IF ~Unwrap(merged.worker.current).latest_summary.is_active
            THEN flush_active(merged, now)
            ELSE {merged}
         : s \in rolled }

on_snapshot(st, snapshot, now) ==
  IF /\ st.worker.current = None
     /\ (~snapshot.encounter.is_active \/ ~snapshot_has_activity(snapshot))
  THEN {st}
  ELSE
    LET rolled == IF /\ IsSome(st.worker.current)
                     /\ should_rollover(Unwrap(st.worker.current), snapshot)
                  THEN flush_active(st, now)
                  ELSE {st}
    IN UNION {
         LET merged == Merge(s, snapshot)
         IN IF ~Unwrap(merged.worker.current).latest_summary.is_active
            THEN flush_active(merged, now)
            ELSE {merged}
         : s \in rolled }

\* Mutant of on_flush: the accumulator is closed and the session left open.
M_on_flush_keeps_session(st, now) == flush_active(st, now)

on_flush(st, now) ==
  UNION { LET r == flush(s.worker.dungeon, TRUE)
          IN handle_dungeon_update([s EXCEPT !.worker.dungeon = r.recorder], r.update)
          : s \in flush_active(st, now) }

on_toggle_dungeon_mode(st, enabled) ==
  LET r == set_enabled(st.worker.dungeon, enabled)
  IN handle_dungeon_update([st EXCEPT !.worker.dungeon = r.recorder], r.update)

(* ----------------------- the worker's command queue ------------------- *)

SnapshotMessage(snapshot) == [message |-> "Snapshot", snapshot |-> snapshot]

FlushMessage == [message |-> "Flush"]

SetDungeonModeMessage(enabled) == [message |-> "SetDungeonMode", enabled |-> enabled]

ShutdownMessage == [message |-> "Shutdown"]

\* recv() with every sender dropped and nothing queued.
ChannelClosed == [message |-> "None"]

\* The unbounded channel: the messages queued, and whether a sender is left.
unbounded_channel == [messages |-> <<>>, senders |-> TRUE]

\* The worker task is at recv(), or suspended on a store call inside a handler, or
\* past its loop with the completion signal sent.
AtRecv == [pc |-> "recv"]

Exited == [pc |-> "exited", shutdown_tx |-> "sent"]

\* Mutant of Dequeue: the newest message is taken first.
M_Dequeue_newest_first(messages) ==
  [message |-> messages[Len(messages)],
   rest |-> SubSeq(messages, 1, Len(messages) - 1)]

\* rx.recv(): the oldest message queued.
Dequeue(messages) == [message |-> Head(messages), rest |-> Tail(messages)]

\* The match in the task's loop: the handler awaited for each message.
Dispatch(st, message, now) ==
  CASE message.message = "Snapshot" -> on_snapshot(st, message.snapshot, now)
    [] message.message = "Flush" -> on_flush(st, now)
    [] message.message = "SetDungeonMode" ->
         on_toggle_dungeon_mode(st, message.enabled)
    [] OTHER -> on_flush(st, now)

\* Mutant of Breaks: the loop is left on a closed channel only, not on Shutdown.
M_Breaks_on_closed_only(message) == message.message = "None"

Breaks(message) == message.message \in {"Shutdown", "None"}

\* The calls a handler awaits: they run on the blocking pool.
Awaited(call) == call.call \in {"append", "append_dungeon"}

\* What a call leaves behind once it has returned.
Effect(s, call) ==
  CASE call.call = "append" /\ call.outcome = "ok" ->
         [s EXCEPT !.store = Append(@, [key |-> call.key, record |-> call.record])]
    [] call.call = "append_dungeon" /\ call.outcome = "ok" ->
         [s EXCEPT !.runs = Append(@, call.record)]
    [] call.call = "send" -> [s EXCEPT !.events = Append(@, call.event)]
    [] OTHER -> s

\* The task runs on from where it is until it has to wait for a store call.
RECURSIVE RunOn(_, _)
RunOn(s, n) ==
  IF s.plan = <<>> \/ Awaited(Head(s.plan)) THEN s
  ELSE RunOn([Effect(s, Head(s.plan)) EXCEPT
                !.plan = Tail(@),
                !.calls = Append(@, [n |-> n, call |-> Head(s.plan)])],
             n)

(* --------------------------- the feed's inputs ------------------------ *)

Sastasha == <<"S", "a">>

CopperbellMines == <<"C", " ", "M">>

MiddleLaNoscea == <<"L", "a">>

\* The catalog of the tests: two dungeons.
TestCatalog == from_raw(<<Sastasha, CopperbellMines>>)

Pull == <<"P", "1">>

Zero == <<"0">>

Thousand == <<"1", ",", "0", "0", "0">>

CombatantRow(name, job, damage, healed, encdps, enchps) ==
  [name |-> name, job |-> job, damage |-> damage, healed |-> healed,
   encdps |-> encdps, enchps |-> enchps]

Alice == CombatantRow(<<"A">>, <<"N">>, 1000 * One, 0, 120 * One, 0)

\* A tick with real figures and a participant row.
RealTick(zone, duration, is_active, received_ms) ==
  EncounterSnapshot(
    EncounterSummary(Pull, zone, duration, <<"1", "2", "0">>, Thousand, Zero, Zero,
                     is_active),
    <<Alice>>, received_ms, received_ms)

\* A tick whose figures are all zero and which lists no participant.
ZeroTick(zone, duration, is_active, received_ms) ==
  EncounterSnapshot(
    EncounterSummary(Pull, zone, duration, Zero, Zero, Zero, Zero, is_active),
    <<>>, received_ms, received_ms)

FeedDurations == {FormatDuration(3), FormatDuration(MaxSecs)}

\* Ticks of a dungeon and of the open world, and the tick that ends a fight in the
\* other dungeon.
FeedSnapshots(received_ms) ==
  UNION { {RealTick(z, d, a, received_ms), ZeroTick(z, d, a, received_ms)} :
          z \in {Sastasha, MiddleLaNoscea}, d \in FeedDurations, a \in BOOLEAN }
    \cup {RealTick(CopperbellMines, FormatDuration(MaxSecs), FALSE, received_ms)}

(* ------------------------ Spec: the running worker -------------------- *)

\* Commands the worker handles in one run.
MaxSteps == 3

Cur == [worker |-> worker, store |-> store, runs |-> runs, events |-> events,
        calls |-> <<>>]

\* What a handler starts from, kept to state what it changed.
Pre == [current |-> worker.current, dungeon |-> worker.dungeon,
        stored |-> Len(store), persisted |-> Len(runs), sent |-> Len(events)]

Becomes(st) ==
  /\ worker' = st.worker
  /\ store' = st.store
  /\ runs' = st.runs
  /\ events' = st.events
  /\ calls' = st.calls
  /\ clock' = clock + 1
  /\ UNCHANGED <<inbox, task>>

Init ==
  /\ inbox = unbounded_channel
  /\ task = AtRecv
  /\ \E catalog \in {None, Some(TestCatalog)}, enabled \in BOOLEAN :
       worker = RecorderWorkerNew(catalog, enabled)
  /\ store = <<>>
  /\ runs = <<>>
  /\ events = <<>>
  /\ calls = <<>>
  /\ last = [op |-> "new"]
  /\ clock = 0

Snapshot ==
  /\ clock < MaxSteps
  /\ \E snapshot \in FeedSnapshots(clock + 1) :
       /\ \E st \in on_snapshot(Cur, snapshot, clock + 1) : Becomes(st)
       /\ last' = [op |-> "on_snapshot", snapshot |-> snapshot, pre |-> Pre]

Flush ==
  /\ clock < MaxSteps
  /\ \E st \in on_flush(Cur, clock + 1) : Becomes(st)
  /\ last' = [op |-> "on_flush", pre |-> Pre]

SetDungeonMode ==
  /\ clock < MaxSteps
  /\ \E enabled \in BOOLEAN :
       /\ \E st \in on_toggle_dungeon_mode(Cur, enabled) : Becomes(st)
       /\ last' = [op |-> "on_toggle_dungeon_mode", enabled |-> enabled,
                   pre |-> Pre]

Spec == Init /\ [][Snapshot \/ Flush \/ SetDungeonMode]_vars

(* ------------- SpecRoll: should_rollover on drawn inputs -------------- *)

Renamed == <<"P", "2">>

Unparseable == <<"-", "-", ":", "-", "-">>

RollDurations ==
  {FormatDuration(n) : n \in 0..MaxSecs}
    \cup {FormatDuration(80), Unparseable, <<>>}

RollDamages ==
  {FormatNumber(n) : n \in 0..MaxDamage} \cup {Thousand, <<"2", ".", "5">>}

RollTick(title, zone, duration, damage, is_active, received_ms) ==
  EncounterSnapshot(
    EncounterSummary(title, zone, duration, <<"1", "2", "0">>, damage, Zero, Zero,
                     is_active),
    <<Alice>>, received_ms, received_ms)

\* The accumulator holds the previous snapshot alone, active or not, or an inactive
\* previous snapshot merged after an earlier, longer and heavier active one.
RollInit ==
  /\ inbox = unbounded_channel
  /\ task = AtRecv
  /\ \E duration \in RollDurations, damage \in RollDamages,
        shape \in {"active", "inactive", "merged"} :
       LET previous == RollTick(Pull, Sastasha, duration, damage, shape = "active", 1)
           earlier == RollTick(Pull, Sastasha, FormatDuration(80), Thousand, TRUE, 0)
       IN worker = [current |-> Some(IF shape = "merged"
                                     THEN update(from_snapshot(earlier), previous)
                                     ELSE from_snapshot(previous)),
                    dungeon |-> DungeonRecorderNew(None, FALSE)]
  /\ \E duration \in RollDurations, damage \in RollDamages, is_active \in BOOLEAN,
        name \in {<<Pull, Sastasha>>, <<Renamed, CopperbellMines>>} :
       last = [op |-> "incoming",
               snapshot |-> RollTick(name[1], name[2], duration, damage, is_active, 2)]
  /\ store = <<>>
  /\ runs = <<>>
  /\ events = <<>>
  /\ calls = <<>>
  /\ clock = 0

RollDecide ==
  /\ last.op = "incoming"
  /\ last' = [op |-> "should_rollover", snapshot |-> last.snapshot,
              result |-> should_rollover(Unwrap(worker.current), last.snapshot)]
  /\ UNCHANGED <<worker, store, runs, events, calls, clock, inbox, task>>

SpecRoll == RollInit /\ [][RollDecide]_vars

(* --------- SpecAcc: an accumulator built, merged into and closed ------ *)

\* Snapshots given to accumulators in one run.
MaxFrames == 3

AccSnapshots(received_ms) ==
  UNION { {RealTick(Sastasha, d, a, received_ms), ZeroTick(Sastasha, d, a, received_ms)} :
          d \in FeedDurations, a \in BOOLEAN }

AccInit ==
  /\ inbox = unbounded_channel
  /\ task = AtRecv
  /\ worker = RecorderWorkerNew(Some(TestCatalog), TRUE)
  /\ store = <<>>
  /\ runs = <<>>
  /\ events = <<>>
  /\ calls = <<>>
  /\ last = [op |-> "new", merged |-> <<>>]
  /\ clock = 0

AccFromSnapshot ==
  /\ worker.current = None
  /\ clock < MaxFrames
  /\ \E snapshot \in AccSnapshots(clock + 1) :
       /\ worker' = [worker EXCEPT !.current = Some(from_snapshot(snapshot))]
       /\ last' = [op |-> "from_snapshot", merged |-> <<snapshot>>]
  /\ clock' = clock + 1
  /\ calls' = <<>>
  /\ UNCHANGED <<store, runs, events, inbox, task>>

AccUpdate ==
  /\ IsSome(worker.current)
  /\ clock < MaxFrames
  /\ \E snapshot \in AccSnapshots(clock + 1) :
       /\ worker' = [worker EXCEPT !.current = Some(update(Unwrap(@), snapshot))]
       /\ last' = [op |-> "update", merged |-> Append(last.merged, snapshot)]
  /\ clock' = clock + 1
  /\ calls' = <<>>
  /\ UNCHANGED <<store, runs, events, inbox, task>>

AccFlushActive ==
  /\ IsSome(worker.current)
  /\ \E st \in flush_active(Cur, clock + 1) : Becomes(st)
  /\ last' = [op |-> "flush_active", merged |-> last.merged, pre |-> Pre]

SpecAcc == AccInit /\ [][AccFromSnapshot \/ AccUpdate \/ AccFlushActive]_vars

(* ------------- SpecDungeon: the aggregator called directly ------------ *)

\* Calls made on the aggregator in one run.
MaxCalls == 4

Padded == <<" ", "s", "A", "\t">>

\* An encounter record as the tests build it: only the fields the aggregator reads.
make_record(zone, title, duration, damage, healed, seen) ==
  [stored_ms |-> seen,
   first_seen_ms |-> seen,
   last_seen_ms |-> seen + 1,
   encounter |-> EncounterSummary(title, zone, duration, <<>>, damage, <<>>, healed,
                                  FALSE),
   rows |-> <<CombatantRow(<<"A">>, <<"N">>, 0, 0, 0, 0)>>,
   raw_last |-> None,
   snapshots |-> 1,
   saw_active |-> TRUE,
   frames |-> <<>>]

\* The first pull of the tests (30 s).
FirstPull(zone, seen) ==
  make_record(zone, <<" ", "P", "1">>, FormatDuration(30),
              <<"1", "0", "0", "0", "0">>, Zero, seen)

\* The records of a Sastasha run are the two pulls of the tests (30 s, 45 s) and a
\* pull with no title, an unparseable duration, fractional figures and another
\* party; they come under either key, so that keys repeat within a session.  The
\* record of the other dungeon, a pull of zero length, and the record of the open
\* world come under one key each.
DungeonRecords(seen) ==
  {[record |-> record, key |-> key] :
     record \in {FirstPull(Sastasha, seen),
                 make_record(Sastasha, Renamed, FormatDuration(45),
                             <<"1", "5", "0", "0", "0">>, Zero, seen),
                 [make_record(Padded, <<>>, Unparseable, <<"2", ".", "5">>, <<"5">>,
                              seen)
                    EXCEPT !.rows = <<CombatantRow(<<"B">>, <<"W">>, 0, 0, 0, 0)>>]},
     key \in {1, 2}}
    \cup {[record |-> make_record(CopperbellMines, Pull, FormatDuration(0), Thousand,
                                  Zero, seen),
           key |-> 2],
          [record |-> FirstPull(MiddleLaNoscea, seen), key |-> 1]}

\* last.joined lists the encounters that entered the session now open: the one
\* DungeonSession::new was given (it comes with the Active notification), then each
\* one DungeonSession::append was given.  last.asked is the enabled flag the caller
\* passed most recently, to new or to set_enabled.  runs collects the aggregates
\* returned, each with the call that returned it.
DungeonInit ==
  /\ inbox = unbounded_channel
  /\ task = AtRecv
  /\ \E catalog \in {None, Some(TestCatalog)}, enabled \in BOOLEAN :
       /\ worker = RecorderWorkerNew(catalog, enabled)
       /\ last = [op |-> "new", asked |-> enabled, joined |-> <<>>]
  /\ store = <<>>
  /\ runs = <<>>
  /\ events = <<>>
  /\ calls = <<>>
  /\ clock = 0

Returned(r, op) ==
  /\ worker' = [worker EXCEPT !.dungeon = r.recorder]
  /\ runs' = runs \o [i \in 1..Len(r.update.aggregates) |->
                        [by |-> op, aggregate |-> r.update.aggregates[i]]]
  /\ clock' = clock + 1
  /\ UNCHANGED <<store, events, calls, inbox, task>>

JoinedAfter(r, entry) ==
  IF r.recorder.session = None THEN <<>>
  ELSE IF IsSome(r.update.zone_state) THEN <<entry>>
  ELSE IF r.recorder.session # worker.dungeon.session THEN Append(last.joined, entry)
  ELSE last.joined

DungeonOnEncounter ==
  /\ clock < MaxCalls
  /\ \E given \in DungeonRecords(2 * clock + 1) :
       LET r == on_encounter(worker.dungeon, given.record, given.key)
       IN /\ Returned(r, "on_encounter")
          /\ last' = [op |-> "on_encounter", record |-> given.record,
                      key |-> given.key,
                      update |-> r.update, pre |-> worker.dungeon,
                      asked |-> last.asked, was |-> last.joined,
                      joined |-> JoinedAfter(r, given)]

DungeonSetEnabled ==
  /\ clock < MaxCalls
  /\ \E enabled \in BOOLEAN :
       LET r == set_enabled(worker.dungeon, enabled)
       IN /\ Returned(r, "set_enabled")
          /\ last' = [op |-> "set_enabled", enabled |-> enabled,
                      update |-> r.update, pre |-> worker.dungeon,
                      asked |-> enabled, was |-> last.joined,
                      joined |-> IF r.recorder.session = None THEN <<>>
                                 ELSE last.joined]

DungeonFlush ==
  /\ clock < MaxCalls
  /\ \E incomplete \in BOOLEAN :
       LET r == flush(worker.dungeon, incomplete)
       IN /\ Returned(r, "flush")
          /\ last' = [op |-> "flush", incomplete |-> incomplete,
                      update |-> r.update, pre |-> worker.dungeon,
                      asked |-> last.asked, was |-> last.joined,
                      joined |-> IF r.recorder.session = None THEN <<>>
                                 ELSE last.joined]

SpecDungeon == DungeonInit /\ [][DungeonOnEncounter \/ DungeonSetEnabled \/ DungeonFlush]_vars

(* -------- SpecQueue: producers, the channel and the worker task ------- *)

\* Messages the producers send in one run.
MaxSent == 3

\* An active tick 11 s into a fight in Sastasha, the inactive tick that ends it,
\* and an active tick 3 s into a fight in Copperbell Mines, which coming after
\* the first is a boundary.
QueueMessages(received_ms) ==
  {SnapshotMessage(snapshot) :
     snapshot \in {RealTick(Sastasha, FormatDuration(MaxSecs), TRUE, received_ms),
                   RealTick(Sastasha, FormatDuration(MaxSecs), FALSE, received_ms),
                   RealTick(CopperbellMines, FormatDuration(3), TRUE, received_ms)}}
    \cup {FlushMessage, SetDungeonModeMessage(FALSE)}

\* The handle spawn_recorder returns and a clone of it.
Handles == {"handle", "clone"}

\* What the handles share: the channel, the completion receiver under its mutex,
\* and how far each handle's shutdown() has got.
RecorderHandleNew ==
  [messages |-> unbounded_channel.messages,
   senders |-> unbounded_channel.senders,
   shutdown |-> Some("shutdown_rx"),
   callers |-> [h \in Handles |-> "idle"]]

\* last.sent lists the messages the producers have sent.  calls is the log of the
\* task: each message received, with its place in the order of receipt, and each
\* call made while it was handled.  clock counts the messages sent.
QueueInit ==
  /\ worker = RecorderWorkerNew(Some(TestCatalog), TRUE)
  /\ store = <<>>
  /\ runs = <<>>
  /\ events = <<>>
  /\ calls = <<>>
  /\ last = [op |-> "spawn_recorder", sent |-> <<>>]
  /\ clock = 0
  /\ inbox = RecorderHandleNew
  /\ task = AtRecv

\* tx.send(message): it returns at once; its error, when the receiver is gone, is
\* dropped.
SendMessage(inner, message) ==
  IF task.pc = "exited" THEN inner
  ELSE [inner EXCEPT !.messages = Append(@, message)]

\* RecorderHandle::record / flush / set_dungeon_mode_enabled, with one of the
\* given messages.
EnqueueFrom(messages) ==
  /\ clock < MaxSent
  /\ inbox.senders
  /\ \E message \in messages :
       /\ inbox' = SendMessage(inbox, message)
       /\ last' = [last EXCEPT !.sent = Append(@, message)]
  /\ clock' = clock + 1
  /\ UNCHANGED <<worker, store, runs, events, calls, task>>

Enqueue == EnqueueFrom(QueueMessages(clock + 1))

\* RecorderHandle::shutdown, up to its first await: Shutdown is sent.  The
\* handles are interchangeable, so the clone is the one that calls second.
Shutdown ==
  /\ clock < MaxSent
  /\ inbox.senders
  /\ \E h \in Handles :
       /\ inbox.callers[h] = "idle"
       /\ h = "clone" => inbox.callers["handle"] # "idle"
       /\ inbox' = [SendMessage(inbox, ShutdownMessage) EXCEPT !.callers[h] = "sent"]
  /\ last' = [last EXCEPT !.sent = Append(@, ShutdownMessage)]
  /\ clock' = clock + 1
  /\ UNCHANGED <<worker, store, runs, events, calls, task>>

\* take_shutdown_receiver: the caller locks the mutex and takes what is there.
\* With the receiver it goes on to await it; with None shutdown() returns.
TakeShutdownReceiver ==
  /\ \E h \in Handles :
       /\ inbox.callers[h] = "sent"
       /\ inbox' = IF IsSome(inbox.shutdown)
                   THEN [inbox EXCEPT !.shutdown = None, !.callers[h] = "awaiting"]
                   ELSE [inbox EXCEPT !.callers[h] = "returned"]
  /\ UNCHANGED <<worker, store, runs, events, calls, last, clock, task>>

\* rx.await ends once the task has sent the completion signal.
ShutdownReturns ==
  /\ task.pc = "exited"
  /\ \E h \in Handles :
       /\ inbox.callers[h] = "awaiting"
       /\ inbox' = [inbox EXCEPT !.callers[h] = "returned"]
  /\ UNCHANGED <<worker, store, runs, events, calls, last, clock, task>>

\* Every handle is dropped; none is inside shutdown().
DropHandles ==
  /\ inbox.senders
  /\ \A h \in Handles : inbox.callers[h] \in {"idle", "returned"}
  /\ inbox' = [inbox EXCEPT !.senders = FALSE]
  /\ UNCHANGED <<worker, store, runs, events, calls, last, clock, task>>

\* The loop is at recv() only between handlers.
Ready(t) == t.pc = "recv"

\* The task carries on after a receipt or a returned call: it suspends on the next
\* store call, or the handler returns and the loop goes on or is left.
Proceeds(s, n, message, end) ==
  LET ran == RunOn(s, n)
  IN /\ store' = ran.store
     /\ runs' = ran.runs
     /\ events' = ran.events
     /\ calls' = ran.calls
     /\ IF ran.plan = <<>>
        THEN /\ worker' = end
             /\ task' = IF Breaks(message) THEN Exited ELSE AtRecv
        ELSE /\ worker' = worker
             /\ task' = [pc |-> "suspended", n |-> n, message |-> message,
                         plan |-> ran.plan, end |-> end]

Received == Cardinality({i \in 1..Len(calls) : calls[i].call.call = "recv"})

Begin(message, rest) ==
  /\ inbox' = [inbox EXCEPT !.messages = rest]
  /\ \E st \in Dispatch(Cur, message, clock) :
       Proceeds([store |-> store, runs |-> runs, events |-> events,
                 plan |-> st.calls,
                 calls |-> Append(calls, [n |-> Received + 1,
                                          call |-> [call |-> "recv",
                                                    message |-> message,
                                                    awaits |-> Len(st.calls)]])],
                Received + 1, message, st.worker)
  /\ UNCHANGED <<last, clock>>

\* rx.recv() yields a message and its handler is started.
Receive ==
  /\ Ready(task)
  /\ inbox.messages # <<>>
  /\ Begin(Dequeue(inbox.messages).message, Dequeue(inbox.messages).rest)

\* rx.recv() yields None: nothing is queued and no sender is left.
ReceiveNone ==
  /\ Ready(task)
  /\ inbox.messages = <<>>
  /\ ~inbox.senders
  /\ Begin(ChannelClosed, <<>>)

\* The store call the task is suspended on returns.
StoreReturns ==
  /\ task.pc = "suspended"
  /\ Proceeds([Effect([store |-> store, runs |-> runs, events |-> events,
                       plan |-> Tail(task.plan),
                       calls |-> Append(calls, [n |-> task.n,
                                                call |-> Head(task.plan)])],
                      Head(task.plan))
               EXCEPT !.plan = Tail(task.plan)],
              task.n, task.message, task.end)
  /\ UNCHANGED <<last, clock, inbox>>

QueueNext ==
  \/ Enqueue
  \/ Shutdown
  \/ TakeShutdownReceiver
  \/ ShutdownReturns
  \/ DropHandles
  \/ Receive
  \/ ReceiveNone
  \/ StoreReturns

SpecQueue == QueueInit /\ [][QueueNext]_vars

\* The steps of the runs checked for progress: the producers send the ticks of
\* one fight and Flush.
FairNext ==
  \/ EnqueueFrom({SnapshotMessage(RealTick(Sastasha, FormatDuration(MaxSecs), is_active,
                                           clock + 1)) : is_active \in BOOLEAN}
                   \cup {FlushMessage})
  \/ Shutdown
  \/ TakeShutdownReceiver
  \/ ShutdownReturns
  \/ DropHandles
  \/ Receive
  \/ ReceiveNone
  \/ StoreReturns

\* The queue model with its scheduling: every store call returns, and the runtime
\* resumes the task when recv() has something to yield.  Receive and ReceiveNone
\* are enabled exactly when the task is at recv() and the channel holds a message
\* or is closed, and each changes the log, so weak fairness on them is that this
\* does not hold for ever.
SpecQueueFair ==
  /\ QueueInit
  /\ [][FairNext]_vars
  /\ WF_vars(StoreReturns)
  /\ []<>~(Ready(task) /\ (inbox.messages # <<>> \/ ~inbox.senders))

(* --------- SpecStream: a feed of whole encounters, end to end --------- *)

\* Commands the feed issues in one run.
MaxCommands == 7

\* last.fed lists the commands issued: every encounter is an active tick followed
\* by the inactive tick that ends it, and Flush comes between encounters.
StreamInit ==
  /\ worker = RecorderWorkerNew(Some(TestCatalog), TRUE)
  /\ store = <<>>
  /\ runs = <<>>
  /\ events = <<>>
  /\ calls = <<>>
  /\ last = [op |-> "spawn_recorder", fed |-> <<>>]
  /\ clock = 0
  /\ inbox = unbounded_channel
  /\ task = AtRecv

Fed(message, st) ==
  /\ Becomes(st)
  /\ last' = [op |-> message.message, fed |-> Append(last.fed, message)]

\* The first tick of an encounter: the fight is on, 3 s in.
StreamActive ==
  /\ clock < MaxCommands
  /\ worker.current = None
  /\ \E zone \in {Sastasha, MiddleLaNoscea} :
       LET snapshot == RealTick(zone, FormatDuration(3), TRUE, clock + 1)
       IN \E st \in Dispatch(Cur, SnapshotMessage(snapshot), clock + 1) :
            Fed(SnapshotMessage(snapshot), st)

\* Its last tick: the fight is over, MaxSecs in.
StreamInactive ==
  /\ clock < MaxCommands
  /\ IsSome(worker.current)
  /\ LET snapshot == RealTick(Unwrap(worker.current).latest_summary.zone,
                              FormatDuration(MaxSecs), FALSE, clock + 1)
     IN \E st \in Dispatch(Cur, SnapshotMessage(snapshot), clock + 1) :
          Fed(SnapshotMessage(snapshot), st)

StreamFlush ==
  /\ clock < MaxCommands
  /\ worker.current = None
  /\ \E st \in Dispatch(Cur, FlushMessage, clock + 1) : Fed(FlushMessage, st)

SpecStream == StreamInit /\ [][StreamActive \/ StreamInactive \/ StreamFlush]_vars

(* ------- SpecCatalog: a catalog built from a document and queried ----- *)

\* Characters in a zone text looked up.
MaxZoneLen == 3

RECURSIVE TextsOver(_, _)
TextsOver(alphabet, n) ==
  IF n = 0 THEN {<<>>}
  ELSE LET shorter == TextsOver(alphabet, n - 1)
       IN shorter \cup {Append(text, c) : text \in shorter, c \in alphabet}

ZoneTexts == TextsOver({"S", "A", "a", " ", "\t"}, MaxZoneLen)

SmallSastasha == <<"s", "a">>

PaddedSastasha == <<" ", "S", "A", "\t">>

\* The documents: their zone names in the order written.  The names of one
\* document differ, being the keys of one JSON object: spellings of Sastasha that
\* differ in case and padding, Copperbell Mines, and a name of whitespace only.
Documents ==
  {<<>>,
   <<Sastasha>>,
   <<Sastasha, CopperbellMines>>,
   <<Sastasha, PaddedSastasha>>,
   <<SmallSastasha, Sastasha>>,
   <<<<" ", "\t">>, PaddedSastasha>>,
   <<CopperbellMines, PaddedSastasha, SmallSastasha>>}

\* The orders in which a HashMap holding the document's names may yield them:
\* any order.
IterationOrders(document) ==
  {order \in [1..Len(document) -> {document[i] : i \in 1..Len(document)}] :
     /\ \A i \in 1..Len(document) : \E j \in 1..Len(document) : order[j] = document[i]
     /\ \A i \in 1..Len(document), j \in 1..Len(document) :
          i # j => order[i] # order[j]}

\* A document is at hand.
CatalogInit ==
  /\ \E document \in Documents : last = [op |-> "document", document |-> document]
  /\ worker = RecorderWorkerNew(None, FALSE)
  /\ store = <<>>
  /\ runs = <<>>
  /\ events = <<>>
  /\ calls = <<>>
  /\ clock = 0
  /\ inbox = unbounded_channel
  /\ task = AtRecv

\* DungeonCatalog::from_str on the document: last keeps the document, the order
\* the map yielded its names in, and the catalog built.
FromStr ==
  /\ last.op = "document"
  /\ \E order \in IterationOrders(last.document) :
       last' = [op |-> "from_str", document |-> last.document, order |-> order,
                catalog |-> from_raw(order)]
  /\ UNCHANGED <<worker, store, runs, events, calls, clock, inbox, task>>

\* One lookup a run: the catalog does not change once built, so a second lookup
\* starts from the same catalog as the first.
CanonicalZone ==
  /\ last.op = "from_str"
  /\ \E zone \in ZoneTexts :
       last' = [op |-> "canonical_zone", document |-> last.document,
                order |-> last.order, catalog |-> last.catalog, zone |-> zone,
                result |-> canonical_zone(last.catalog, zone)]
  /\ UNCHANGED <<worker, store, runs, events, calls, clock, inbox, task>>

SpecCatalog == CatalogInit /\ [][FromStr \/ CanonicalZone]_vars

(* ----------- SpecLoad: load_default in a drawn environment ------------ *)

\* The environments: what is at each place, and whether the embedded document
\* loads.
LoadInit ==
  /\ \E env \in [{SourceOrder[i] : i \in 1..Len(SourceOrder)} \cup {EmbeddedCatalog}
                   -> {"absent", "unparseable", "parseable"}] :
       /\ env[EmbeddedCatalog] # "absent"
       /\ last = [op |-> "startup", env |-> env]
  /\ worker = RecorderWorkerNew(None, FALSE)
  /\ store = <<>>
  /\ runs = <<>>
  /\ events = <<>>
  /\ calls = <<>>
  /\ clock = 0
  /\ inbox = unbounded_channel
  /\ task = AtRecv

LoadDefault ==
  /\ last.op = "startup"
  /\ last' = [op |-> "load_default", env |-> last.env,
              loaded |-> load_default(last.env)]
  /\ UNCHANGED <<worker, store, runs, events, calls, clock, inbox, task>>

SpecLoad == LoadInit /\ [][LoadDefault]_vars

(* ------------ SpecParse: parse_duration_secs on drawn texts ----------- *)

\* Characters in a duration text.
MaxTextLen == 5

ParseInit ==
  /\ last = [op |-> "idle"]
  /\ worker = RecorderWorkerNew(None, FALSE)
  /\ store = <<>>
  /\ runs = <<>>
  /\ events = <<>>
  /\ calls = <<>>
  /\ clock = 0
  /\ inbox = unbounded_channel
  /\ task = AtRecv

\* The function is pure: one call a run shows every call.  The texts are over two
\* digits, the separator, the signs, a blank and a letter.
ParseDurationSecs ==
  /\ last.op = "idle"
  /\ \E text \in TextsOver({"1", "7", ":", "+", "-", " ", "x"}, MaxTextLen) :
       last' = [op |-> "parse_duration_secs", text |-> text,
                result |-> parse_duration_secs(text)]
  /\ UNCHANGED <<worker, store, runs, events, calls, clock, inbox, task>>

SpecParse == ParseInit /\ [][ParseDurationSecs]_vars

(* ------------ SpecParty: party_signature on drawn row lists ----------- *)

\* Rows in a list given to party_signature.
MaxRows == 3

\* The rows are Alice the ninja and Bob the white mage of the tests, with names
\* and jobs padded and swapped, in every order and with repeats.
PartyInit ==
  /\ \E n \in 0..MaxRows :
       \E rows \in [1..n -> {CombatantRow(name, job, 0, 0, 0, 0) :
                               name \in {<<"A">>, <<"B">>, <<" ", "A">>},
                               job \in {<<"N">>, <<"W">>, <<"N", " ">>}}] :
         last = [op |-> "rows", rows |-> rows]
  /\ worker = RecorderWorkerNew(None, FALSE)
  /\ store = <<>>
  /\ runs = <<>>
  /\ events = <<>>
  /\ calls = <<>>
  /\ clock = 0
  /\ inbox = unbounded_channel
  /\ task = AtRecv

PartySignature ==
  /\ last.op = "rows"
  /\ last' = [op |-> "party_signature", rows |-> last.rows,
              result |-> party_signature(last.rows)]
  /\ UNCHANGED <<worker, store, runs, events, calls, clock, inbox, task>>

SpecParty == PartyInit /\ [][PartySignature]_vars

(* ============================== claims ================================ *)

(* ----------------------- the worker, under Spec ----------------------- *)

Handled(op) == last.op = op

Untouched ==
  /\ calls = <<>>
  /\ Len(store) = last.pre.stored
  /\ Len(runs) = last.pre.persisted
  /\ Len(events) = last.pre.sent

\* Positive damage, healed, dps or hps on the summary or on any row.
RealActivity(snapshot) ==
  \/ parse_number(snapshot.encounter.damage) > 0
  \/ parse_number(snapshot.encounter.healed) > 0
  \/ parse_number(snapshot.encounter.encdps) > 0
  \/ parse_number(snapshot.encounter.enchps) > 0
  \/ \E i \in 1..Len(snapshot.rows) :
        \/ snapshot.rows[i].damage > 0 \/ snapshot.rows[i].healed > 0
        \/ snapshot.rows[i].encdps > 0 \/ snapshot.rows[i].enchps > 0

\* C1: with no open accumulator, a snapshot opens one if and only if it is active
\* and shows real activity; every other snapshot, an active all-zero one included,
\* creates no accumulator, persists nothing and emits no event.
C1_OpensOnlyOnRealActivity ==
  (Handled("on_snapshot") /\ last.pre.current = None) =>
    LET qualifies == /\ last.snapshot.encounter.is_active
                     /\ RealActivity(last.snapshot)
    IN /\ IsSome(worker.current) <=> qualifies
       /\ ~qualifies => Untouched

\* C2: an inactive snapshot merged into an accumulator closes it within the same
\* handling, as the last frame of the closed record; so between commands an open
\* accumulator has an active latest summary.
C2_InactiveMergeCloses ==
  /\ IsSome(worker.current) => Unwrap(worker.current).latest_summary.is_active
  /\ ( /\ Handled("on_snapshot")
       /\ IsSome(last.pre.current)
       /\ ~last.snapshot.encounter.is_active ) =>
       /\ worker.current = None
       /\ calls # <<>>
       /\ calls[1].call = "append"
       /\ calls[1].record.frames =
            Append(Unwrap(last.pre.current).frames, FrameOf(last.snapshot))

C2_Witness ==
  /\ Handled("on_snapshot")
  /\ IsSome(last.pre.current)
  /\ ~last.snapshot.encounter.is_active
  /\ worker.current = None
  /\ Len(store) = last.pre.stored + 1

BoundaryFired ==
  /\ Handled("on_snapshot")
  /\ IsSome(last.pre.current)
  /\ should_rollover(Unwrap(last.pre.current), last.snapshot)

\* C3: when the boundary fires, the accumulator is closed and handed to the store
\* without the incoming snapshot, which then is the only frame of a new accumulator
\* whose first-seen is its receipt time; no stored record holds the incoming snapshot.
C3_BoundaryClosesBeforeMerge ==
  BoundaryFired =>
    /\ calls # <<>>
    /\ calls[1].call = "append"
    /\ calls[1].record.frames = Unwrap(last.pre.current).frames
    /\ \A i \in 1..Len(store) : \A j \in 1..Len(store[i].record.frames) :
         store[i].record.frames[j] # FrameOf(last.snapshot)
    /\ worker.current = Some(from_snapshot(last.snapshot))
    /\ Unwrap(worker.current).first_seen_ms = last.snapshot.received_ms
    /\ Unwrap(worker.current).frames = <<FrameOf(last.snapshot)>>

C3_Witness ==
  /\ BoundaryFired
  /\ Len(store) = last.pre.stored + 1
  /\ Len(store[Len(store)].record.frames) >= 2

(* ------------------- should_rollover, under SpecRoll ------------------ *)

Decided == Handled("should_rollover")

Previous == Unwrap(worker.current)

Incoming == last.snapshot.encounter

PrevSecs == parse_duration_secs(Previous.latest_summary.duration)

NextSecs == parse_duration_secs(Incoming.duration)

PrevDamage == parse_number(Previous.latest_summary.damage)

NextDamage == parse_number(Incoming.damage)

BothParse == IsSome(PrevSecs) /\ IsSome(NextSecs)

DamageDropped == NextDamage + One < PrevDamage

\* C4: should_rollover is false for every inactive incoming snapshot, whatever the
\* durations and damage figures are.
C4_InactiveNeverRolls ==
  (Decided /\ ~Incoming.is_active) => ~last.result

C4_Witness ==
  /\ Decided
  /\ ~Incoming.is_active
  /\ Previous.saw_active
  /\ BothParse
  /\ Unwrap(PrevSecs) > 10
  /\ Unwrap(NextSecs) = 0
  /\ DamageDropped
  /\ ~last.result

MidFight == Decided /\ Incoming.is_active /\ Previous.saw_active

\* C5: mid-fight, with both durations parsed and no damage drop beyond 1, the
\* boundary fires exactly when incoming + 2 < previous; the hard-reset rule adds no case.
C5_BackwardReset ==
  (MidFight /\ BothParse /\ ~DamageDropped) =>
    /\ last.result <=> Unwrap(NextSecs) + 2 < Unwrap(PrevSecs)
    /\ (Unwrap(PrevSecs) > 10 /\ Unwrap(NextSecs) = 0) =>
         Unwrap(NextSecs) + 2 < Unwrap(PrevSecs)

C5_Witness ==
  /\ MidFight
  /\ BothParse
  /\ ~DamageDropped
  /\ Unwrap(NextSecs) + 2 = Unwrap(PrevSecs)
  /\ ~last.result

\* C6: mid-fight, the boundary fires whenever incoming damage + 1 < previous damage,
\* and when a duration text is unparseable it fires exactly in that case.
C6_DamageDrop ==
  MidFight =>
    /\ DamageDropped => last.result
    /\ ~BothParse => (last.result <=> DamageDropped)

C6_Witness ==
  /\ MidFight
  /\ NextSecs = None
  /\ IsSome(PrevSecs)
  /\ DamageDropped
  /\ last.result

Names == {<<Renamed, CopperbellMines>>, <<<<>>, MiddleLaNoscea>>}

Retitled(summary, name) == [summary EXCEPT !.title = name[1], !.zone = name[2]]

\* C7: should_rollover gives the same result for snapshot pairs that differ only in
\* title and zone, and mid-fight it is false when neither duration nor damage decreased.
C7_RenameNeverRolls ==
  Decided =>
    /\ \A before \in Names, after \in Names :
         should_rollover(
           [Previous EXCEPT !.latest_summary = Retitled(@, before)],
           [last.snapshot EXCEPT !.encounter = Retitled(@, after)]) = last.result
    /\ ( /\ Previous.saw_active
         /\ NextDamage >= PrevDamage
         /\ BothParse => Unwrap(NextSecs) >= Unwrap(PrevSecs) ) => ~last.result

C7_Witness ==
  /\ MidFight
  /\ Incoming.zone # Previous.latest_summary.zone
  /\ Incoming.title # Previous.latest_summary.title
  /\ BothParse
  /\ Unwrap(NextSecs) > Unwrap(PrevSecs)
  /\ NextDamage > PrevDamage
  /\ ~last.result

(* --------------------- the accumulator, under SpecAcc ----------------- *)

Closed == Unwrap(last.pre.current)

\* C8: closing an accumulator that never saw activity and has no rows persists
\* nothing, forwards nothing and reports nothing; any other one goes to the store.
C8_EmptyEncounterDiscarded ==
  Handled("flush_active") =>
    /\ worker.current = None
    /\ IF ~Closed.saw_active /\ Closed.latest_rows = <<>>
       THEN Untouched /\ worker.dungeon = last.pre.dungeon
       ELSE /\ calls # <<>>
            /\ calls[1].call = "append"
            /\ calls[1].record.frames = Closed.frames
            /\ calls[1].record.saw_active = Closed.saw_active
            /\ calls[1].record.rows = Closed.latest_rows

C8_Witness ==
  /\ Handled("flush_active")
  /\ ~Closed.saw_active
  /\ Closed.latest_rows = <<>>
  /\ Len(Closed.frames) >= 2
  /\ calls = <<>>

Keeps(record, merged) ==
  /\ record.snapshots = Len(record.frames)
  /\ Len(record.frames) = Len(merged)
  /\ \A i \in 1..Len(merged) : record.frames[i] = FrameOf(merged[i])
  /\ record.encounter = merged[Len(merged)].encounter
  /\ record.rows = merged[Len(merged)].rows
  /\ record.first_seen_ms = record.frames[1].received_ms
  /\ record.last_seen_ms = record.frames[Len(record.frames)].received_ms

\* C9: a closed record keeps every merged snapshot as a frame in arrival order; its
\* count is the number merged, its summary and rows are the last one's, first-seen
\* and last-seen are the first and the last frame's times.
C9_RecordKeepsFrames ==
  /\ IsSome(worker.current) =>
       Keeps(from_active(Unwrap(worker.current), clock), last.merged)
  /\ (Handled("flush_active") /\ calls # <<>>) => Keeps(calls[1].record, last.merged)

C9_Witness ==
  /\ Handled("flush_active")
  /\ calls # <<>>
  /\ calls[1].call = "append"
  /\ calls[1].record.snapshots >= 3
  /\ ~calls[1].record.encounter.is_active

(* -------------------- the aggregator, under SpecDungeon --------------- *)

IdleMatch ==
  /\ Handled("on_encounter")
  /\ last.pre.session = None
  /\ last.pre.enabled
  /\ IsSome(last.pre.catalog)
  /\ IsSome(canonical_zone(Unwrap(last.pre.catalog), last.record.encounter.zone))

MatchedZone == Unwrap(canonical_zone(Unwrap(last.pre.catalog), last.record.encounter.zone))

OpensSessionTitled(title) ==
  /\ IsSome(worker.dungeon.session)
  /\ Unwrap(worker.dungeon.session).zone = MatchedZone
  /\ Unwrap(worker.dungeon.session).child_keys = <<last.key>>
  /\ Unwrap(worker.dungeon.session).child_titles = <<title>>
  /\ last.update.aggregates = <<>>
  /\ last.update.zone_state = Some(Active(MatchedZone))

\* C10, as stated: Idle and enabled with a catalog, a record whose zone matches Z
\* opens a session for Z holding exactly the record's key and title, returns no
\* aggregate and notifies Active(Z).
C10_AsStated == IdleMatch => OpensSessionTitled(last.record.encounter.title)

\* C10, amended: the title held is the record's title trimmed, or the trimmed zone
\* text when the title is blank.
C10_IdleMatchOpens ==
  IdleMatch =>
    OpensSessionTitled(IF Trim(last.record.encounter.title) # <<>>
                       THEN Trim(last.record.encounter.title)
                       ELSE Trim(last.record.encounter.zone))

C10_Witness ==
  /\ IdleMatch
  /\ IsSome(worker.dungeon.session)
  /\ last.record.encounter.title = <<>>
  /\ last.record.encounter.zone = Padded

\* The aggregates the last call returned.
Emitted == IF Handled("new") THEN <<>> ELSE last.update.aggregates

\* The zone the catalog resolves the last record's zone to, if the aggregator
\* was enabled with a catalog when the record came.
Resolved ==
  IF last.pre.enabled /\ IsSome(last.pre.catalog)
  THEN canonical_zone(Unwrap(last.pre.catalog), last.record.encounter.zone)
  ELSE None

Listening == Handled("on_encounter") /\ last.pre.enabled /\ IsSome(last.pre.catalog)

SameZone ==
  /\ Listening
  /\ IsSome(last.pre.session)
  /\ Resolved = Some(Unwrap(last.pre.session).zone)

RECURSIVE SumSeq(_)
SumSeq(numbers) ==
  IF numbers = <<>> THEN 0 ELSE Head(numbers) + SumSeq(Tail(numbers))

SecondsOf(record) ==
  IF IsSome(parse_duration_secs(record.encounter.duration))
  THEN Unwrap(parse_duration_secs(record.encounter.duration))
  ELSE 0

KeysOf(joined) == {joined[i].key : i \in 1..Len(joined)}

\* The aggregate counts and sums the encounters joined.
Totals(aggregate, joined) ==
  /\ Len(aggregate.child_keys) = Cardinality(KeysOf(joined))
  /\ aggregate.total_duration_secs =
       SumSeq([i \in 1..Len(joined) |-> SecondsOf(joined[i].record)])
  /\ aggregate.total_damage =
       SumSeq([i \in 1..Len(joined) |-> parse_number(joined[i].record.encounter.damage)])
  /\ aggregate.total_healed =
       SumSeq([i \in 1..Len(joined) |-> parse_number(joined[i].record.encounter.healed)])

\* C11: with a session open for Z, a record whose zone resolves to Z joins it (its
\* key is pushed, last-seen moves, zone and start stay) and the call returns no
\* aggregate and no notification; every aggregate returned has as many child keys
\* as the joined encounters have distinct keys, and its duration, damage and healed
\* totals are the sums over them, an unparseable duration counting as 0.
C11_SameZoneJoins ==
  /\ SameZone =>
       /\ last.update = EmptyUpdate
       /\ IsSome(worker.dungeon.session)
       /\ Unwrap(worker.dungeon.session).zone = Unwrap(last.pre.session).zone
       /\ Unwrap(worker.dungeon.session).started_ms = Unwrap(last.pre.session).started_ms
       /\ Unwrap(worker.dungeon.session).last_seen_ms = last.record.last_seen_ms
       /\ Unwrap(worker.dungeon.session).child_keys =
            Append(Unwrap(last.pre.session).child_keys, last.key)
       /\ last.joined = Append(last.was, [record |-> last.record, key |-> last.key])
  /\ \A i \in 1..Len(Emitted) : Totals(Emitted[i], last.was)

\* The two pulls of the tests and an untimed pull under a repeated key, closed.
C11_Witness ==
  /\ Len(Emitted) = 1
  /\ Len(last.was) = 3
  /\ \E i \in 1..3 : parse_duration_secs(last.was[i].record.encounter.duration) = None
  /\ Emitted[1].total_duration_secs = 75
  /\ Emitted[1].total_damage = 25000 * One + 25
  /\ Len(Emitted[1].child_keys) = 2

ZoneChange ==
  /\ Listening
  /\ IsSome(last.pre.session)
  /\ IsSome(Resolved)
  /\ Unwrap(Resolved) # Unwrap(last.pre.session).zone

KeySet(keys) == {keys[i] : i \in 1..Len(keys)}

\* The aggregate is the session that was open before the call, nothing more.
ClosesPrevious(aggregate) ==
  /\ aggregate.zone = Unwrap(last.pre.session).zone
  /\ aggregate.started_ms = Unwrap(last.pre.session).started_ms
  /\ aggregate.last_seen_ms = Unwrap(last.pre.session).last_seen_ms
  /\ KeySet(aggregate.child_keys) = KeysOf(last.was)
  /\ last.was # <<>>
  /\ aggregate.last_seen_ms = last.was[Len(last.was)].record.last_seen_ms

\* The open session holds the given record and nothing else.
SeededOnlyBy(zone, record, key) ==
  /\ IsSome(worker.dungeon.session)
  /\ LET session == Unwrap(worker.dungeon.session)
     IN /\ session.zone = zone
        /\ session.child_keys = <<key>>
        /\ Len(session.child_titles) = 1
        /\ session.started_ms = record.first_seen_ms
        /\ session.last_seen_ms = record.last_seen_ms
        /\ session.total_duration_secs = SecondsOf(record)
        /\ session.total_damage = parse_number(record.encounter.damage)
        /\ session.total_healed = parse_number(record.encounter.healed)
  /\ last.joined = <<[record |-> record, key |-> key]>>

\* C12: with a session open for Z', a record whose zone resolves to another zone Z
\* closes the Z' session as exactly one aggregate, incomplete = false, holding the
\* encounters joined before the call and not the new one; a session for Z is opened
\* from the new record alone, and the call returns Active(Z) with the aggregate.
C12_ZoneChangeClosesAndOpens ==
  ZoneChange =>
    /\ Len(Emitted) = 1
    /\ ~Emitted[1].incomplete
    /\ ClosesPrevious(Emitted[1])
    /\ last.key \notin KeysOf(last.was) => last.key \notin KeySet(Emitted[1].child_keys)
    /\ last.update.zone_state = Some(Active(Unwrap(Resolved)))
    /\ SeededOnlyBy(Unwrap(Resolved), last.record, last.key)

C12_Witness ==
  /\ ZoneChange
  /\ Len(last.was) = 2
  /\ Unwrap(last.pre.session).zone = Sastasha
  /\ Unwrap(Resolved) = CopperbellMines
  /\ Len(Emitted) = 1
  /\ last.key \notin KeySet(Emitted[1].child_keys)

Unmatched == Listening /\ Resolved = None

\* C13: a record whose zone has no canonical match closes an open session as one
\* aggregate, incomplete = false, with the notification Inactive, and leaves no
\* session open; with none open the call returns nothing and changes nothing.  No
\* such record is ever among the encounters of a session, so its key is in no
\* aggregate on its account.
C13_UnmatchedCloses ==
  /\ Unmatched =>
       /\ worker.dungeon.session = None
       /\ worker.dungeon.enabled
       /\ IF IsSome(last.pre.session)
          THEN /\ Len(Emitted) = 1
               /\ ~Emitted[1].incomplete
               /\ ClosesPrevious(Emitted[1])
               /\ last.key \notin KeysOf(last.was) =>
                    last.key \notin KeySet(Emitted[1].child_keys)
               /\ last.update.zone_state = Some(Inactive)
          ELSE /\ last.update = EmptyUpdate
               /\ worker.dungeon = last.pre
  /\ \A i \in 1..Len(last.joined) :
       /\ IsSome(worker.dungeon.catalog)
       /\ IsSome(canonical_zone(Unwrap(worker.dungeon.catalog),
                                last.joined[i].record.encounter.zone))
  /\ \A i \in 1..Len(Emitted) : KeySet(Emitted[i].child_keys) = KeysOf(last.was)

C13_Witness ==
  /\ Unmatched
  /\ Len(last.was) = 2
  /\ last.record.encounter.zone = MiddleLaNoscea
  /\ Len(Emitted) = 1
  /\ last.key \notin KeySet(Emitted[1].child_keys)
  /\ worker.dungeon.session = None

\* C14: disabling with a session open closes it as one aggregate, incomplete = true,
\* with the notification Inactive; a disabled aggregator holds no session, enabling
\* opens none, a record that comes while it is disabled changes and returns
\* nothing, and a record that opens a session from Idle is that session's only child.
C14_DisableClosesForGood ==
  /\ (Handled("set_enabled") /\ ~last.enabled /\ IsSome(last.pre.session)) =>
       /\ Len(Emitted) = 1
       /\ Emitted[1].incomplete
       /\ ClosesPrevious(Emitted[1])
       /\ last.update.zone_state = Some(Inactive)
  /\ ~worker.dungeon.enabled => worker.dungeon.session = None
  /\ (Handled("set_enabled") /\ last.enabled) =>
       /\ worker.dungeon.session = last.pre.session
       /\ last.update = EmptyUpdate
  /\ (Handled("on_encounter") /\ ~last.pre.enabled) =>
       /\ worker.dungeon = last.pre
       /\ last.update = EmptyUpdate
       /\ last.joined = <<>>
  /\ ( /\ Handled("on_encounter")
       /\ last.pre.session = None
       /\ IsSome(worker.dungeon.session) ) =>
       SeededOnlyBy(Unwrap(Resolved), last.record, last.key)

\* A session closed by disabling, the aggregator enabled again, and the next record
\* of the same zone alone in a new session.
C14_Witness ==
  /\ Handled("on_encounter")
  /\ last.pre.session = None
  /\ IsSome(worker.dungeon.session)
  /\ Unwrap(worker.dungeon.session).child_keys = <<last.key>>
  /\ Len(runs) = 1
  /\ runs[1].by = "set_enabled"
  /\ runs[1].aggregate.incomplete
  /\ runs[1].aggregate.zone = Unwrap(worker.dungeon.session).zone

\* C15: an aggregator built without a catalog stays disabled and Idle and returns
\* no aggregate and no notification, whatever flag it was built with or given later.
C15_NoCatalogNoAggregation ==
  worker.dungeon.catalog = None =>
    /\ ~worker.dungeon.enabled
    /\ worker.dungeon.session = None
    /\ runs = <<>>
    /\ ~Handled("new") => last.update = EmptyUpdate

C15_Witness ==
  /\ worker.dungeon.catalog = None
  /\ Handled("on_encounter")
  /\ clock >= 3
  /\ last.asked
  /\ IsSome(canonical_zone(TestCatalog, last.record.encounter.zone))
  /\ worker.dungeon.session = None
  /\ last.update = EmptyUpdate

\* C16: flush(incomplete) with a session open closes it as exactly one aggregate
\* carrying that flag, returns Inactive and leaves no session open; with none open
\* it returns no aggregate and no notification.
C16_FlushCloses ==
  Handled("flush") =>
    /\ worker.dungeon.session = None
    /\ worker.dungeon.enabled = last.pre.enabled
    /\ IF IsSome(last.pre.session)
       THEN /\ Len(Emitted) = 1
            /\ Emitted[1].incomplete = last.incomplete
            /\ ClosesPrevious(Emitted[1])
            /\ last.update.zone_state = Some(Inactive)
       ELSE /\ last.update = EmptyUpdate
            /\ worker.dungeon = last.pre

C16_Witness ==
  /\ Handled("flush")
  /\ ~last.incomplete
  /\ Len(last.was) = 2
  /\ Len(Emitted) = 1
  /\ ~Emitted[1].incomplete
  /\ worker.dungeon.session = None

\* C17: in every aggregate the rate is total damage over total seconds when the
\* seconds are positive and 0 when they are 0; the divisor is never 0.
C17_RateGuarded ==
  \A i \in 1..Len(runs) :
    LET aggregate == runs[i].aggregate
    IN /\ aggregate.total_encdps.den # 0
       /\ IF aggregate.total_duration_secs > 0
          THEN aggregate.total_encdps = [num |-> aggregate.total_damage,
                                         den |-> aggregate.total_duration_secs]
          ELSE aggregate.total_encdps.num = 0

\* The tests' 25000 / 75, then a session of one zero-length pull with damage.
C17_Witness ==
  /\ Len(runs) = 2
  /\ runs[1].aggregate.total_encdps = [num |-> 25000 * One, den |-> 75]
  /\ runs[2].aggregate.total_duration_secs = 0
  /\ runs[2].aggregate.total_damage > 0
  /\ runs[2].aggregate.total_encdps.num = 0

FirstAt(joined, key) == CHOOSE i \in 1..Len(joined) :
                          /\ joined[i].key = key
                          /\ \A j \in 1..(i - 1) : joined[j].key # key

\* C18: in every aggregate returned the child keys are pairwise distinct and in the
\* order of their first occurrence among the encounters joined, there is one title
\* per key, the one resolved for the key's first occurrence, and deduplicating the
\* aggregate's lists again changes nothing.
C18_DedupFirstOccurrence ==
  \A a \in 1..Len(Emitted) :
    LET keys == Emitted[a].child_keys
        titles == Emitted[a].child_titles
    IN /\ \A i \in 1..Len(keys), j \in 1..Len(keys) : keys[i] = keys[j] => i = j
       /\ KeySet(keys) = KeysOf(last.was)
       /\ \A i \in 1..Len(keys), j \in 1..Len(keys) :
            i < j => FirstAt(last.was, keys[i]) < FirstAt(last.was, keys[j])
       /\ Len(titles) = Len(keys)
       /\ \A i \in 1..Len(keys) :
            titles[i] = resolve_title(last.was[FirstAt(last.was, keys[i])].record)
       /\ dedup_keys(keys, titles) = [keys |-> keys, titles |-> titles]

C18_Witness ==
  /\ Len(Emitted) = 1
  /\ Len(last.was) = 3
  /\ <<last.was[1].key, last.was[2].key, last.was[3].key>> = <<2, 1, 2>>
  /\ resolve_title(last.was[3].record) # resolve_title(last.was[1].record)
  /\ Emitted[1].child_keys = <<2, 1>>
  /\ Emitted[1].child_titles =
       <<resolve_title(last.was[1].record), resolve_title(last.was[2].record)>>

(* ----------------- the queue and the task, under SpecQueue ------------ *)

Logged(kind) == SelectSeq(calls, LAMBDA entry : entry.call.call = kind)

Receipts == Logged("recv")

\* The calls logged for the n-th message received, its receipt left out.
Work(n) == SelectSeq(calls, LAMBDA entry : entry.n = n /\ entry.call.call # "recv")

Taken == Cardinality({i \in 1..Len(Receipts) : Receipts[i].call.message # ChannelClosed})

\* C19: the messages are received in the order they were sent, none skipped, and
\* what is queued is what was sent and not yet received; the calls of one message
\* are all made before the next message is received; a send is possible whatever
\* the task is doing.
C19_OneAtATimeInOrder ==
  /\ \A i \in 1..Len(Receipts) :
       /\ Receipts[i].n = i
       /\ IF Receipts[i].call.message = ChannelClosed
          THEN i = Len(last.sent) + 1 /\ i = Len(Receipts) /\ ~inbox.senders
          ELSE i <= Len(last.sent) /\ Receipts[i].call.message = last.sent[i]
  /\ task.pc # "exited" =>
       inbox.messages = SubSeq(last.sent, Taken + 1, Len(last.sent))
  /\ \A i \in 1..Len(calls), j \in 1..Len(calls) : i < j => calls[i].n <= calls[j].n
  /\ \A i \in 1..Len(Receipts) :
       IF i < Len(Receipts) \/ task.pc # "suspended"
       THEN Len(Work(i)) = Receipts[i].call.awaits
       ELSE /\ task.n = i
            /\ Len(Work(i)) + Len(task.plan) = Receipts[i].call.awaits
            /\ task.plan # <<>>
  /\ (clock < MaxSent /\ inbox.senders) => ENABLED Enqueue

\* The task waits for the store to take the encounter the second message closed,
\* while a third message, sent after the task began on the second, is queued.
C19_Witness ==
  /\ task.pc = "suspended"
  /\ task.n = 2
  /\ Len(Receipts) = 2
  /\ Head(task.plan).call = "append"
  /\ clock > Head(task.plan).record.stored_ms
  /\ inbox.messages = <<last.sent[3]>>

\* The log, followed by the calls the handler in flight has yet to make.
Whole ==
  calls \o (IF task.pc = "suspended"
            THEN [i \in 1..Len(task.plan) |-> [n |-> task.n, call |-> task.plan[i]]]
            ELSE <<>>)

Succeeded(attempts) == SelectSeq(attempts, LAMBDA entry : entry.call.outcome = "ok")

\* Where the notification of an aggregator update comes in the log: after the
\* update's aggregates, each followed by its error report if it failed.
RECURSIVE AfterAggregates(_, _)
AfterAggregates(p, aggregates) ==
  IF aggregates = <<>> THEN p
  ELSE IF /\ p <= Len(Whole)
          /\ Whole[p].call.call = "append_dungeon"
          /\ Whole[p].call.record = Head(aggregates)
       THEN AfterAggregates(IF Whole[p].call.outcome = "ok" THEN p + 1 ELSE p + 2,
                            Tail(aggregates))
       ELSE 0

Notifies(zone_state) ==
  DungeonSessionUpdate(IF zone_state.state = "Active" THEN Some(zone_state.zone)
                       ELSE None)

\* C20: encounter records go to the store in the order their accumulators were
\* closed and the store holds the successful ones in that order; each stored record
\* is forwarded to the aggregator next, and no other is; aggregates go to the store
\* in the order their sessions closed; after a forwarding, the aggregate it closed
\* is persisted before the notification is sent; and a call the task is waiting
\* for has left nothing behind yet.
C20_PersistedInClosingOrder ==
  /\ \A i \in 1..Len(Logged("append")), j \in 1..Len(Logged("append")) :
       i < j => Logged("append")[i].call.record.last_seen_ms
                  < Logged("append")[j].call.record.first_seen_ms
  /\ store = [i \in 1..Len(Succeeded(Logged("append"))) |->
                [key |-> Succeeded(Logged("append"))[i].call.key,
                 record |-> Succeeded(Logged("append"))[i].call.record]]
  /\ \A p \in 1..Len(calls) :
       /\ calls[p].call.call = "on_encounter" =>
            /\ p > 1
            /\ calls[p - 1].call.call = "append"
            /\ calls[p - 1].call.outcome = "ok"
            /\ calls[p - 1].call.key = calls[p].call.key
            /\ calls[p - 1].n = calls[p].n
       /\ calls[p].call.call = "append" =>
            /\ p < Len(calls)
            /\ IF calls[p].call.outcome = "ok"
               THEN calls[p + 1].call.call = "on_encounter"
               ELSE calls[p + 1].call =
                      [call |-> "send",
                       event |-> SystemError(ErrorKind(calls[p].call.outcome))]
  /\ \A i \in 1..Len(Logged("append_dungeon")), j \in 1..Len(Logged("append_dungeon")) :
       i < j => Logged("append_dungeon")[i].call.record.last_seen_ms
                  < Logged("append_dungeon")[j].call.record.started_ms
  /\ runs = [i \in 1..Len(Succeeded(Logged("append_dungeon"))) |->
               Succeeded(Logged("append_dungeon"))[i].call.record]
  /\ \A p \in 1..Len(calls) :
       calls[p].call.call = "on_encounter" =>
         LET q == AfterAggregates(p + 1, calls[p].call.update.aggregates)
         IN /\ q # 0
            /\ IsSome(calls[p].call.update.zone_state) =>
                 /\ q <= Len(Whole)
                 /\ Whole[q].n = calls[p].n
                 /\ Whole[q].call =
                      [call |-> "send",
                       event |-> Notifies(Unwrap(calls[p].call.update.zone_state))]
  /\ task.pc = "suspended" => Awaited(Head(task.plan))

\* One Flush that stored an encounter, persisted the run it closed, and then
\* persisted the run it had opened.
C20_Witness ==
  /\ Len(store) = 2
  /\ Len(runs) = 2
  /\ \E p \in 1..Len(calls), q \in 1..Len(calls) :
       /\ p < q
       /\ calls[p].n = calls[q].n
       /\ calls[p].call.call = "append_dungeon"
       /\ calls[q].call.call = "append_dungeon"
       /\ ~calls[p].call.record.incomplete
       /\ calls[q].call.record.incomplete


\* The record the store holds under a key.
StoredUnder(key) == {store[i].record : i \in {j \in 1..Len(store) : store[j].key = key}}

\* The aggregates handed to append_dungeon: those whose call has returned and the
\* one the task is waiting for.
Handed ==
  {calls[p].call.record :
     p \in {q \in 1..Len(calls) : calls[q].call.call = "append_dungeon"}}
    \cup (IF task.pc = "suspended" /\ Head(task.plan).call = "append_dungeon"
          THEN {Head(task.plan).record}
          ELSE {})

\* C21: a key forwarded to the aggregator is the key of one stored record, stored
\* while the same message was handled; every child key of an aggregate handed to
\* append_dungeon is the key of one stored record, an encounter of the aggregate's
\* zone seen within the aggregate's span, and the child's title is that record's;
\* beyond keys and titles the aggregate holds only its own figures.
C21_ChildrenAreStoredKeys ==
  /\ \A p \in 1..Len(calls) :
       calls[p].call.call = "on_encounter" =>
         /\ Cardinality(StoredUnder(calls[p].call.key)) = 1
         /\ \E q \in 1..(p - 1) :
              /\ calls[q].n = calls[p].n
              /\ calls[q].call.call = "append"
              /\ calls[q].call.outcome = "ok"
              /\ calls[q].call.key = calls[p].call.key
              /\ StoredUnder(calls[p].call.key) = {calls[q].call.record}
  /\ \A aggregate \in Handed :
       /\ Len(aggregate.child_titles) = Len(aggregate.child_keys)
       /\ \A j \in 1..Len(aggregate.child_keys) :
            /\ Cardinality(StoredUnder(aggregate.child_keys[j])) = 1
            /\ \A record \in StoredUnder(aggregate.child_keys[j]) :
                 /\ canonical_zone(TestCatalog, record.encounter.zone)
                      = Some(aggregate.zone)
                 /\ aggregate.started_ms <= record.first_seen_ms
                 /\ record.last_seen_ms <= aggregate.last_seen_ms
                 /\ aggregate.child_titles[j] = resolve_title(record)
       /\ DOMAIN aggregate =
            {"zone", "started_ms", "last_seen_ms", "party_signature",
             "total_duration_secs", "total_damage", "total_healed", "total_encdps",
             "child_keys", "child_titles", "incomplete"}

\* The task waits for the store to take an aggregate of two encounters, both of
\* them stored.
C21_Witness ==
  /\ task.pc = "suspended"
  /\ Head(task.plan).call = "append_dungeon"
  /\ Len(Head(task.plan).record.child_keys) = 2
  /\ Len(store) = 2


FailedCall(call) == Awaited(call) /\ call.outcome # "ok"

Reports(call) == [call |-> "send", event |-> SystemError(ErrorKind(call.outcome))]

IsErrorReport(call) == call.call = "send" /\ call.event.event = "SystemError"

\* The handler in flight, started with no accumulator open: the workers it can
\* end with.
WithoutAccumulator ==
  {st.worker : st \in Dispatch([Cur EXCEPT !.worker.current = None], task.message,
                               clock)}

\* C22: a store call that fails, for an encounter or for an aggregate, is followed
\* by one error event of its kind and by no second one, and no error event has
\* another origin; the failed record is not in the store; the handler that lost
\* an encounter ends with the worker it would have ended with had no accumulator
\* been open, and the one that lost an aggregate with that session gone; the task
\* leaves its loop on Shutdown or a closed channel only.
C22_FailureReportedOnce ==
  /\ \A p \in 1..Len(Whole) :
       /\ FailedCall(Whole[p].call) =>
            /\ p < Len(Whole)
            /\ Whole[p + 1] = [n |-> Whole[p].n, call |-> Reports(Whole[p].call)]
            /\ p + 2 <= Len(Whole) => ~IsErrorReport(Whole[p + 2].call)
       /\ IsErrorReport(Whole[p].call) => p > 1 /\ FailedCall(Whole[p - 1].call)
  /\ Len(SelectSeq(events, LAMBDA event : event.event = "SystemError"))
       = Len(SelectSeq(calls, LAMBDA entry : FailedCall(entry.call)))
  /\ \A p \in 1..Len(calls) :
       FailedCall(calls[p].call) =>
         /\ calls[p].call.call = "append" =>
              \A i \in 1..Len(store) : store[i].record # calls[p].call.record
         /\ calls[p].call.call = "append_dungeon" =>
              \A i \in 1..Len(runs) : runs[i] # calls[p].call.record
  /\ task.pc = "suspended" =>
       \A p \in 1..Len(Whole) :
         (Whole[p].n = task.n /\ FailedCall(Whole[p].call)) =>
           /\ Whole[p].call.call = "append" => task.end \in WithoutAccumulator
           /\ Whole[p].call.call = "append_dungeon" =>
                \/ task.end.dungeon.session = None
                \/ Unwrap(task.end.dungeon.session).started_ms
                     > Whole[p].call.record.last_seen_ms
  /\ \A i \in 1..Len(Receipts) :
       Breaks(Receipts[i].call.message) =>
         /\ i = Len(Receipts)
         /\ task.pc # "recv"
  /\ task.pc = "exited" =>
       Receipts # <<>> /\ Breaks(Receipts[Len(Receipts)].call.message)

\* The second message lost its encounter to a store failure, and the third was
\* handled after it and stored the next encounter.
C22_Witness ==
  /\ task.pc = "recv"
  /\ Len(Receipts) = 3
  /\ \E p \in 1..Len(calls), q \in 1..Len(calls) :
       /\ calls[p].n = 2
       /\ calls[p].call.call = "append"
       /\ calls[p].call.outcome # "ok"
       /\ calls[q].n = 3
       /\ calls[q].call.call = "append"
       /\ calls[q].call.outcome = "ok"
  /\ Len(store) = 1


\* The handler of the last message received has made every call it had to make.
LastHandled ==
  /\ Receipts # <<>>
  /\ Len(Work(Len(Receipts))) = Receipts[Len(Receipts)].call.awaits

\* The final flush has run to its end: on_flush, started by Shutdown or by the
\* closed channel, has returned and left nothing open.
FinalFlushDone ==
  /\ LastHandled
  /\ Breaks(Receipts[Len(Receipts)].call.message)
  /\ task.pc # "suspended"
  /\ worker.current = None
  /\ worker.dungeon.session = None

\* C23: the completion signal is sent, and the loop left, only after the final
\* flush has run to its end; and a shutdown() call, on whichever handle, has
\* returned only if the final flush has run to its end.
C23_ShutdownAwaitsFinalFlush ==
  /\ task.pc = "exited" => FinalFlushDone
  /\ \A h \in Handles : inbox.callers[h] = "returned" => FinalFlushDone


ShutdownQueued == \E i \in 1..Len(inbox.messages) : inbox.messages[i] = ShutdownMessage

\* The place of the first Shutdown among the messages sent, 0 without one.
FirstShutdown ==
  IF \E i \in 1..Len(last.sent) : last.sent[i] = ShutdownMessage
  THEN CHOOSE i \in 1..Len(last.sent) :
         /\ last.sent[i] = ShutdownMessage
         /\ \A j \in 1..(i - 1) : last.sent[j] # ShutdownMessage
  ELSE 0

\* The task has handled every message sent before the Shutdown (or before the last
\* handle was dropped) and then that, the final flush has run to its end, and the
\* task is past its loop with the completion signal sent.
Completed ==
  /\ task = Exited
  /\ FinalFlushDone
  /\ \A i \in 1..(Len(Receipts) - 1) :
       /\ Receipts[i].call.message = last.sent[i]
       /\ Len(Work(i)) = Receipts[i].call.awaits
  /\ IF Receipts[Len(Receipts)].call.message = ShutdownMessage
     THEN Len(Receipts) = FirstShutdown
     ELSE Len(Receipts) = Len(last.sent) + 1 /\ ~inbox.senders

\* C24: once a Shutdown is queued or every handle has been dropped, the task
\* comes to have handled all that was sent before, run the final flush and sent
\* the completion signal; and past its loop the task does nothing more, so the
\* signal is sent once.
C24_ShutdownCompletes ==
  /\ (ShutdownQueued \/ ~inbox.senders) ~> Completed
  /\ [][task.pc = "exited" =>
          /\ task' = task
          /\ UNCHANGED <<worker, store, runs, events, calls>>]_vars

\* The task is past its loop after a Shutdown that was queued behind two
\* snapshots; the final flush stored what they had left open.
C24_Witness ==
  /\ Completed
  /\ FirstShutdown = 3
  /\ Len(store) >= 1
  /\ \E p \in 1..Len(calls) : calls[p].n = 3 /\ calls[p].call.call = "append"


\* The messages whose handler is on_flush.
Flushes(message) == message = FlushMessage \/ Breaks(message)

\* The calls of the handler in flight, made and still to make.
InFlight == SelectSeq(Whole, LAMBDA entry : entry.n = task.n /\ entry.call.call # "recv")

\* The aggregator as the handler in flight has it once the accumulator is closed:
\* it was told of the record if the store took it.
AfterClosing ==
  IF IsSome(worker.current) /\ InFlight[1].call.outcome = "ok"
  THEN on_encounter(worker.dungeon, InFlight[1].call.record,
                    InFlight[1].call.key).recorder
  ELSE worker.dungeon

\* The handler in flight ends by persisting this aggregate and, whether or not
\* the store took it, by sending the Inactive notification.
EndsWithInactive(aggregate) ==
  LET last_call == InFlight[Len(InFlight)]
      persisting == IF InFlight[Len(InFlight) - 1].call.call = "append_dungeon"
                    THEN Len(InFlight) - 1 ELSE Len(InFlight) - 2
  IN /\ last_call.call = [call |-> "send", event |-> DungeonSessionUpdate(None)]
     /\ persisting >= 1
     /\ InFlight[persisting].call.call = "append_dungeon"
     /\ InFlight[persisting].call.record = aggregate
     /\ persisting = Len(InFlight) - 2 =>
          /\ InFlight[persisting].call.outcome # "ok"
          /\ IsErrorReport(InFlight[Len(InFlight) - 1].call)

\* C25: once Flush, Shutdown or the closed channel has been handled, no
\* accumulator and no session is open.  While it is handled: an open accumulator
\* is closed first, its record handed to the store unless it is an empty one that
\* never was active; a session open after that is closed as an aggregate with
\* incomplete = true, followed by the Inactive notification, and the handler
\* ends with nothing open.
C25_FlushLeavesNothingOpen ==
  /\ (task.pc # "suspended" /\ Receipts # <<>>
        /\ Flushes(Receipts[Len(Receipts)].call.message)) =>
       /\ worker.current = None
       /\ worker.dungeon.session = None
  /\ (task.pc = "suspended" /\ Flushes(task.message)) =>
       /\ task.end.current = None
       /\ task.end.dungeon.session = None
       /\ IsSome(worker.current) =>
            LET active == Unwrap(worker.current)
            IN IF ~active.saw_active /\ active.latest_rows = <<>>
               THEN \A i \in 1..Len(InFlight) : InFlight[i].call.call # "append"
               ELSE /\ InFlight[1].call.call = "append"
                    /\ InFlight[1].call.record
                         = from_active(active, InFlight[1].call.record.stored_ms)
       /\ worker.current = None =>
            \A i \in 1..Len(InFlight) : InFlight[i].call.call # "append"
       /\ IsSome(AfterClosing.session) =>
            /\ EndsWithInactive(into_record(Unwrap(AfterClosing.session), TRUE))
            /\ into_record(Unwrap(AfterClosing.session), TRUE).incomplete

\* A Flush has been handled that stored the open encounter, told the aggregator,
\* which opened a session, then persisted that session as an incomplete run and
\* announced that no session is active.
C25_Witness ==
  /\ task.pc = "recv"
  /\ Len(Receipts) = 2
  /\ Receipts[2].call.message = FlushMessage
  /\ Len(Work(2)) = 5
  /\ Work(2)[1].call.call = "append"
  /\ Work(2)[2].call.call = "on_encounter"
  /\ Work(2)[4].call.call = "append_dungeon"
  /\ Work(2)[4].call.outcome = "ok"
  /\ runs # <<>>
  /\ runs[Len(runs)].incomplete
  /\ runs[Len(runs)].child_keys = <<store[1].key>>
  /\ events[Len(events)] = DungeonSessionUpdate(None)
  /\ worker.current = None
  /\ worker.dungeon.session = None


(* ---------------------- end to end, under SpecStream ------------------ *)

IsTick(message, is_active) ==
  message.message = "Snapshot" /\ message.snapshot.encounter.is_active = is_active

\* Where in the feed the encounters that have ended began.
Ended == {i \in 1..(Len(last.fed) - 1) : IsTick(last.fed[i], TRUE)}

\* The k-th encounter ended: where it began.
EndedAt(k) ==
  CHOOSE i \in Ended : Cardinality({j \in Ended : j < i}) = k - 1

ZoneAt(k) == last.fed[EndedAt(k)].snapshot.encounter.zone

NoFailure == \A i \in 1..Len(events) : events[i].event # "SystemError"

\* The feed began with k encounters in Sastasha and went on with encounters
\* outside the catalog, the first of which has ended, with no Flush before that.
DungeonThenOpenWorld(k) ==
  /\ k >= 1
  /\ Cardinality(Ended) > k
  /\ \A j \in 1..Cardinality(Ended) :
       ZoneAt(j) = (IF j <= k THEN Sastasha ELSE MiddleLaNoscea)
  /\ \A i \in 1..EndedAt(k + 1) : last.fed[i] # FlushMessage
  /\ (IsTick(last.fed[Len(last.fed)], TRUE)) =>
       last.fed[Len(last.fed)].snapshot.encounter.zone = MiddleLaNoscea

\* C26: an encounter that ended is stored at most once, and with no store
\* failure the store holds exactly the encounters that ended, each with its two
\* ticks, in order.  With no failure, after k encounters in a catalogued zone and
\* an encounter in an uncatalogued one, and whatever uncatalogued encounters and
\* Flushes follow, the stored runs are one run: that zone's, incomplete = false,
\* its children the k encounters; a Flush that comes after makes no store call.
C26_EndToEnd ==
  /\ Len(store) <= Cardinality(Ended)
  /\ NoFailure =>
       /\ Len(store) = Cardinality(Ended)
       /\ \A k \in 1..Len(store) :
            /\ store[k].record.first_seen_ms = EndedAt(k)
            /\ store[k].record.last_seen_ms = EndedAt(k) + 1
            /\ store[k].record.snapshots = 2
            /\ store[k].record.frames
                 = <<FrameOf(last.fed[EndedAt(k)].snapshot),
                     FrameOf(last.fed[EndedAt(k) + 1].snapshot)>>
            /\ store[k].record.encounter = last.fed[EndedAt(k) + 1].snapshot.encounter
       /\ \A k \in 1..MaxCommands :
            DungeonThenOpenWorld(k) =>
              /\ Len(runs) = 1
              /\ ~runs[1].incomplete
              /\ runs[1].zone = Sastasha
              /\ runs[1].child_keys = [j \in 1..k |-> store[j].key]
              /\ runs[1].started_ms = store[1].record.first_seen_ms
              /\ runs[1].last_seen_ms = store[k].record.last_seen_ms
              /\ runs[1].total_duration_secs = k * MaxSecs
              /\ worker.dungeon.session = None
              /\ last.op = "Flush" => calls = <<>>

\* Two encounters in Sastasha, one in Middle La Noscea, then Flush: one run of two
\* children is stored and the Flush has added nothing.
C26_Witness ==
  /\ NoFailure
  /\ DungeonThenOpenWorld(2)
  /\ Len(last.fed) = 7
  /\ last.op = "Flush"
  /\ Len(store) = 3
  /\ Len(runs) = 1
  /\ Len(runs[1].child_keys) = 2


(* ------------------- the catalog, under SpecCatalog ------------------- *)

\* The words of a text: its maximal runs of characters that are not whitespace.
RECURSIVE WordsFrom(_, _, _)
WordsFrom(text, words, word) ==
  IF text = <<>> THEN (IF word = <<>> THEN words ELSE Append(words, word))
  ELSE IF Head(text) \in {" ", "\t"}
       THEN WordsFrom(Tail(text), IF word = <<>> THEN words ELSE Append(words, word),
                      <<>>)
       ELSE WordsFrom(Tail(text), words, Append(word, Head(text)))

Words(text) == WordsFrom(text, <<>>, <<>>)

\* The lower-case letter of each upper-case letter the zone texts use.
LowerCase(c) ==
  LET upper == <<"A", "C", "L", "M", "S">>
      lower == <<"a", "c", "l", "m", "s">>
  IN IF \E i \in 1..5 : upper[i] = c
     THEN lower[CHOOSE i \in 1..5 : upper[i] = c]
     ELSE c

\* Two texts are equal after trimming, collapsing whitespace runs to one space and
\* lower-casing exactly when they have the same words, case aside.
Folded(text) ==
  [i \in 1..Len(Words(text)) |->
     [j \in 1..Len(Words(text)[i]) |-> LowerCase(Words(text)[i][j])]]

FoldedText == [text \in ZoneTexts |-> Folded(text)]

\* The text with one space between its words and none around them.
RECURSIVE Spaced(_)
Spaced(words) ==
  IF words = <<>> THEN <<>>
  ELSE IF Len(words) = 1 THEN words[1]
  ELSE words[1] \o <<" ">> \o Spaced(Tail(words))

\* C27: the zone looked up and any text equal to it after trimming, collapsing
\* and lower-casing have the same result; the result is none for a text with no
\* word in it and for one no name of the document is equal to in that way;
\* otherwise it is the trimmed, collapsed spelling of such a name.
C27_LookupFoldsSpelling ==
  last.op = "canonical_zone" =>
    /\ \A other \in ZoneTexts :
         FoldedText[other] = FoldedText[last.zone] =>
           canonical_zone(last.catalog, other) = last.result
    /\ Folded(last.zone) = <<>> => last.result = None
    /\ (\A i \in 1..Len(last.document) :
          Folded(last.document[i]) # Folded(last.zone)) => last.result = None
    /\ (Folded(last.zone) # <<>>
          /\ \E i \in 1..Len(last.document) :
               Folded(last.document[i]) = Folded(last.zone)) =>
         /\ IsSome(last.result)
         /\ \E i \in 1..Len(last.document) :
              /\ Folded(last.document[i]) = Folded(last.zone)
              /\ Unwrap(last.result) = Spaced(Words(last.document[i]))

\* " SA" is looked up in a catalog built from "Sa" and Copperbell Mines, and
\* resolves to "Sa".
C27_Witness ==
  /\ last.op = "canonical_zone"
  /\ last.document = <<Sastasha, CopperbellMines>>
  /\ last.zone = <<" ", "S", "A">>
  /\ last.result = Some(Sastasha)


\* The place in the sequence of the first name equal to names[i] after folding.
FirstSpelt(names, i) ==
  CHOOSE f \in 1..i :
    /\ Folded(names[f]) = Folded(names[i])
    /\ \A j \in 1..(f - 1) : Folded(names[j]) # Folded(names[i])

\* C28: the catalog holds one entry for each key the document's names fold to,
\* and under each name of the document the spelling kept is the one of the first
\* name in the document that folds to the same key: a later duplicate neither
\* fails the load nor replaces it.
C28_FirstInDocumentKept ==
  last.op = "from_str" =>
  /\ Cardinality(DOMAIN last.catalog.canonical_by_norm)
       = Cardinality({Folded(last.document[i]) : i \in 1..Len(last.document)}
                       \ {<<>>})
  /\ \A i \in 1..Len(last.document) :
       Folded(last.document[i]) # <<>> =>
         canonical_zone(last.catalog, last.document[i])
           = Some(Spaced(Words(last.document[FirstSpelt(last.document, i)])))


(* ---------------------- loading, under SpecLoad ----------------------- *)

\* The sources in order of precedence, the embedded document last.
Precedence == Append(SourceOrder, EmbeddedCatalog)

\* The first source in order of precedence that loads, 0 if none does.
FirstLoading(env) ==
  IF \E i \in 1..Len(Precedence) : env[Precedence[i]] = "parseable"
  THEN CHOOSE i \in 1..Len(Precedence) :
         /\ env[Precedence[i]] = "parseable"
         /\ \A j \in 1..(i - 1) : env[Precedence[j]] # "parseable"
  ELSE 0

\* C29 as stated: the catalog loaded is that of the first source, in the order
\* primary variable, legacy variable, working directory, executable's directory,
\* embedded document, that loads: a file that fails to parse passes the turn to
\* the next source.
C29_FallsThroughToNext ==
  last.op = "load_default" =>
    IF FirstLoading(last.env) = 0 THEN last.loaded.result = "Err"
    ELSE last.loaded = [result |-> "Ok",
                        source |-> Precedence[FirstLoading(last.env)]]

\* The places with a file at them, as indices into the order.
Discovered(env) == {i \in 1..Len(SourceOrder) : Exists(env[SourceOrder[i]])}

\* C29 amended: the only file tried is the first one found, in the order primary
\* variable, legacy variable, working directory, executable's directory; it is
\* the catalog if it loads; if it does not, or no file is found, the embedded
\* document is loaded, whatever files are at the places after it; and the load
\* fails only if the embedded document is then unparseable.
C29_FallsBackToEmbedded ==
  last.op = "load_default" =>
    LET found == Discovered(last.env)
        first == CHOOSE i \in found : \A j \in found : i <= j
    IN IF found # {} /\ last.env[SourceOrder[first]] = "parseable"
       THEN last.loaded = [result |-> "Ok", source |-> SourceOrder[first]]
       ELSE IF last.env[EmbeddedCatalog] = "parseable"
            THEN last.loaded = [result |-> "Ok", source |-> EmbeddedCatalog]
            ELSE last.loaded = [result |-> "Err"]

\* The file the primary variable names does not parse, a file that parses is in
\* the working directory, and the embedded document is what was loaded.
C29_Witness ==
  /\ last.op = "load_default"
  /\ last.env[SourceOrder[1]] = "unparseable"
  /\ last.env[SourceOrder[3]] = "parseable"
  /\ last.loaded = [result |-> "Ok", source |-> EmbeddedCatalog]


(* ------------------- duration text, under SpecParse ------------------- *)

Colons(text) == {i \in 1..Len(text) : text[i] = ":"}

\* One to three segments between colons, each of one or more digits.
WellFormed(text) ==
  /\ text # <<>>
  /\ \A i \in 1..Len(text) : text[i] \in Digits \cup {":"}
  /\ Cardinality(Colons(text)) <= 2
  /\ text[1] # ":"
  /\ text[Len(text)] # ":"
  /\ \A i \in 1..(Len(text) - 1) : ~(text[i] = ":" /\ text[i + 1] = ":")

\* The rightmost segment counts seconds and each segment before it sixty times
\* the one after.
RECURSIVE Seconds(_)
Seconds(text) ==
  IF Colons(text) = {} THEN DigitsValue(text, 0)
  ELSE LET c == CHOOSE i \in Colons(text) : \A j \in Colons(text) : j <= i
       IN DigitsValue(SubSeq(text, c + 1, Len(text)), 0)
            + 60 * Seconds(SubSeq(text, 1, c - 1))

\* C30: for a text of one to three colon-separated segments of digits the result
\* is seconds + 60 * minutes + 3600 * hours, and for every other text (empty, more
\* than three segments, an empty segment, a segment with '+', '-' or any other
\* non-digit in it) the result is none.
C30_DigitsOnlyOrNone ==
  last.op = "parse_duration_secs" =>
    last.result = (IF WellFormed(last.text) THEN Some(Seconds(last.text)) ELSE None)


(* -------------------- party signature, under SpecParty ---------------- *)

\* The entry of a row: its name and job without surrounding blanks, joined by '|'.
RECURSIVE Bare(_)
Bare(text) ==
  IF text = <<>> THEN text
  ELSE IF Head(text) = " " THEN Bare(Tail(text))
  ELSE IF text[Len(text)] = " " THEN Bare(SubSeq(text, 1, Len(text) - 1))
  ELSE text

EntryOf(row) == Bare(row.name) \o <<"|">> \o Bare(row.job)

EntriesOf(rows) == {EntryOf(rows[i]) : i \in 1..Len(rows)}

\* Strings in byte order: a is before b when at the first place they differ a has
\* the lesser byte, or a ends there.
Byte(c) ==
  CASE c = " " -> 32 [] c = "A" -> 65 [] c = "B" -> 66
    [] c = "N" -> 78 [] c = "W" -> 87 [] c = "|" -> 124

Before(a, b) ==
  \E k \in 1..Len(b) :
    /\ \A i \in 1..(k - 1) : i <= Len(a) /\ a[i] = b[i]
    /\ (k > Len(a) \/ Byte(a[k]) < Byte(b[k]))

\* C31: party_signature returns the 'name|job' strings of the rows, name and job
\* trimmed, in ascending order and without duplicates; so two lists with the same
\* rows in another order or number give the same result.
C31_SortedDeduplicated ==
  last.op = "party_signature" =>
    /\ {last.result[i] : i \in 1..Len(last.result)} = EntriesOf(last.rows)
    /\ \A i \in 1..(Len(last.result) - 1) : Before(last.result[i], last.result[i + 1])

\* Three rows out of order, one of them a padded repeat, give two entries.
C31_Witness ==
  /\ last.op = "party_signature"
  /\ last.rows = <<CombatantRow(<<"B">>, <<"W">>, 0, 0, 0, 0),
                   CombatantRow(<<"A">>, <<"N">>, 0, 0, 0, 0),
                   CombatantRow(<<" ", "A">>, <<"N", " ">>, 0, 0, 0, 0)>>
  /\ last.result = <<<<"A", "|", "N">>, <<"B", "|", "W">>>>


(* ---------------- a failed append, under Spec ------------------------- *)

\* The append calls of the last handler that failed.
FailedAppends == {i \in 1..Len(calls) : calls[i].call = "append" /\ calls[i].outcome # "ok"}

\* The aggregates the last handler persisted or tried to persist.
Attempted == SelectSeq(calls, LAMBDA call : call.call = "append_dungeon")

\* The child keys of the session open in a recorder, none if none is open.
OpenKeys(recorder) ==
  IF recorder.session = None THEN <<>> ELSE Unwrap(recorder.session).child_keys

\* C32: when the append of a closed encounter fails, on_encounter is not called
\* and the store gains nothing.  Closed by a snapshot, the failed record leaves the
\* aggregator as it was, session included, and no aggregate or run-state
\* notification follows, whatever the record's zone.  Closed by Flush, the run
\* that Flush ends has the children the session had before, with no child for the
\* failed record.  No child key of an aggregate or of the open session stands for
\* the failed record.
C32_FailedAppendNotForwarded ==
  \A i \in FailedAppends :
    /\ \A j \in 1..Len(calls) : calls[j].call # "on_encounter"
    /\ Len(store) = last.pre.stored
    /\ Handled("on_snapshot") =>
         /\ worker.dungeon = last.pre.dungeon
         /\ Len(runs) = last.pre.persisted
         /\ Attempted = <<>>
         /\ \A j \in 1..Len(calls) : calls[j].call = "send" => IsErrorReport(calls[j])
    /\ Handled("on_flush") =>
         /\ worker.dungeon.session = None
         /\ Len(Attempted) = (IF last.pre.dungeon.session = None THEN 0 ELSE 1)
         /\ \A j \in 1..Len(Attempted) :
              /\ Attempted[j].record.incomplete
              /\ KeySet(Attempted[j].record.child_keys)
                   = KeySet(OpenKeys(last.pre.dungeon))
    /\ \A keys \in {runs[r].child_keys : r \in 1..Len(runs)}
                     \cup {OpenKeys(worker.dungeon)} :
         \A k \in 1..Len(keys) :
           /\ keys[k] \in 1..Len(store)
           /\ store[keys[k]].record # calls[i].record

\* A run is open in Sastasha and the tick that ends a fight in Copperbell Mines
\* closes a record the store refuses: the run stays open with its one child.
C32_Witness ==
  /\ Handled("on_snapshot")
  /\ FailedAppends # {}
  /\ \A i \in FailedAppends : calls[i].record.encounter.zone = CopperbellMines
  /\ IsSome(worker.dungeon.session)
  /\ Unwrap(worker.dungeon.session).zone = Sastasha
  /\ OpenKeys(worker.dungeon) = <<1>>


(* ---------------- the sticky activity flag, under Spec ---------------- *)

\* The encounter records the last handler handed to the store.
Appended == SelectSeq(calls, LAMBDA call : call.call = "append")

\* C33: every accumulator open in the worker has seen activity, and so has every
\* record handed to the store; hence a boundary is never due to an accumulator
\* that saw none, and whenever an accumulator is closed, by a boundary, by an
\* inactive tick or by Flush, its record is handed to the store and not discarded.
C33_AccumulatorsSawActivity ==
  /\ IsSome(worker.current) => Unwrap(worker.current).saw_active
  /\ \A i \in 1..Len(Appended) : Appended[i].record.saw_active
  /\ (Handled("on_snapshot") /\ IsSome(last.pre.current)) =>
       /\ Unwrap(last.pre.current).saw_active
       /\ (\/ should_rollover(Unwrap(last.pre.current), last.snapshot)
           \/ ~last.snapshot.encounter.is_active) => Len(Appended) = 1
  /\ (Handled("on_flush") /\ IsSome(last.pre.current)) => Len(Appended) = 1

\* An accumulator opened by an active tick with zero figures and no rows is
\* closed by Flush: its record goes to the store.
C33_Witness ==
  /\ Handled("on_flush")
  /\ Len(Appended) = 1
  /\ Appended[1].record.rows = <<>>
  /\ parse_number(Appended[1].record.encounter.damage) = 0
  /\ Appended[1].record.saw_active


(* ------------- the run-state notifications, under Spec ---------------- *)

\* The run-state notifications sent so far.
RunStates == SelectSeq(events, LAMBDA event : event.event = "DungeonSessionUpdate")

\* C34: between two commands the latest run-state notification tells the state of
\* the aggregator: it names zone Z exactly when a session for Z is open, and it
\* says no run is active, or none was ever sent, exactly when no session is open.
C34_NotificationAgrees ==
  IF IsSome(worker.dungeon.session)
  THEN /\ RunStates # <<>>
       /\ RunStates[Len(RunStates)].active_zone
            = Some(Unwrap(worker.dungeon.session).zone)
  ELSE RunStates # <<>> => RunStates[Len(RunStates)].active_zone = None


\* A run in Sastasha gave way to a run in Copperbell Mines: the second of the two
\* notifications names Copperbell Mines.
C34_Witness ==
  /\ IsSome(worker.dungeon.session)
  /\ Unwrap(worker.dungeon.session).zone = CopperbellMines
  /\ Len(RunStates) = 2
  /\ RunStates[1].active_zone = Some(Sastasha)
  /\ RunStates[2].active_zone = Some(CopperbellMines)


(* -------------- the last encounter of a run, under Spec --------------- *)

\* The accumulator Flush finds open is in the zone of the open session, or in a
\* catalogued zone while no session is open.
OpenInRun ==
  /\ Handled("on_flush")
  /\ IsSome(last.pre.current)
  /\ IsSome(last.pre.dungeon.catalog)
  /\ LET canonical == canonical_zone(Unwrap(last.pre.dungeon.catalog),
                                     Unwrap(last.pre.current).latest_summary.zone)
     IN /\ IsSome(canonical)
        /\ \/ last.pre.dungeon.session = None
           \/ /\ IsSome(last.pre.dungeon.session)
              /\ Unwrap(last.pre.dungeon.session).zone = Unwrap(canonical)

\* The handler handed one record to the store, and then one aggregate, marked
\* incomplete, whose last child is the key of that record.
JoinedThenClosed ==
  /\ Len(Appended) = 1
  /\ Len(Attempted) = 1
  /\ \E i, j \in 1..Len(calls) :
       /\ i < j
       /\ calls[i] = Appended[1]
       /\ calls[j] = Attempted[1]
  /\ LET aggregate == Attempted[1].record
     IN /\ aggregate.incomplete
        /\ aggregate.child_keys # <<>>
        /\ aggregate.child_keys[Len(aggregate.child_keys)] = Appended[1].key

RECURSIVE KeptFrom(_, _)
KeptFrom(i, open) ==
  IF i > Len(Receipts) THEN <<>>
  ELSE LET message == Receipts[i].call.message
       IN IF message.message = "Snapshot"
          THEN IF ~open /\ ~(/\ message.snapshot.encounter.is_active
                             /\ RealActivity(message.snapshot))
               THEN KeptFrom(i + 1, FALSE)
               ELSE <<message.snapshot>>
                      \o KeptFrom(i + 1, message.snapshot.encounter.is_active)
          ELSE IF message.message = "SetDungeonMode" THEN KeptFrom(i + 1, open)
          ELSE KeptFrom(i + 1, FALSE)

\* The frames of the stored records, record after record.
RECURSIVE FramesFrom(_)
FramesFrom(k) ==
  IF k > Len(store) THEN <<>> ELSE store[k].record.frames \o FramesFrom(k + 1)

\* C36: with no persistence failure so far and no handler in flight, the frames
\* of the stored records followed by those of the open accumulator are the
\* snapshots not ignored, each once, in the order they arrived; once Flush or
\* Shutdown has been handled no accumulator is open, so they are all in stored
\* records; and the times of arrival rise along the frames.
C36_EverySnapshotOnce ==
  (task.pc # "suspended" /\ NoFailure) =>
    LET kept == KeptFrom(1, FALSE)
        frames == FramesFrom(1) \o (IF IsSome(worker.current)
                                    THEN Unwrap(worker.current).frames ELSE <<>>)
    IN /\ frames = [i \in 1..Len(kept) |-> FrameOf(kept[i])]
       /\ \A i \in 1..(Len(frames) - 1) : frames[i].received_ms < frames[i + 1].received_ms
       /\ \A k \in 1..Len(store) : store[k].record.frames # <<>>
       /\ (Receipts # <<>> /\ Flushes(Receipts[Len(Receipts)].call.message)) =>
            worker.current = None

\* Two active ticks, the second a boundary, then Flush: two records of one frame
\* each, in the order of arrival.
C36_Witness ==
  /\ task.pc = "recv"
  /\ NoFailure
  /\ Len(Receipts) = 3
  /\ Receipts[3].call.message = FlushMessage
  /\ Len(store) = 2
  /\ store[1].record.frames[1].received_ms < store[2].record.frames[1].received_ms
  /\ Len(KeptFrom(1, FALSE)) = 2


(* ------------- active frames before the last, under Spec -------------- *)

\* All frames but the last n are active.
ActiveButLast(frames, n) ==
  \A i \in 1..(Len(frames) - n) : frames[i].encounter.is_active

\* C37: every record handed to the store begins with an active frame, and all its
\* frames before the last are active; the accumulator left open between two
\* commands holds active frames only.
C37_OnlyLastFrameInactive ==
  /\ \A i \in 1..Len(Appended) :
       LET frames == Appended[i].record.frames
       IN /\ frames # <<>>
          /\ frames[1].encounter.is_active
          /\ ActiveButLast(frames, 1)
  /\ IsSome(worker.current) => ActiveButLast(Unwrap(worker.current).frames, 0)

\* Two active ticks and the inactive tick that ends the fight: a record of three
\* frames, the last one inactive.
C37_Witness ==
  /\ Handled("on_snapshot")
  /\ Len(Appended) = 1
  /\ Len(Appended[1].record.frames) = 3
  /\ ~Appended[1].record.frames[3].encounter.is_active


(* ------------- the disabled aggregator, under SpecDungeon ------------- *)

\* C38: while the effective enabled flag is false no session is open; and a call
\* of on_encounter on a disabled aggregator leaves the aggregator as it was and
\* returns an update with no aggregate and no zone state.
C38_DisabledHoldsNoSession ==
  /\ ~worker.dungeon.enabled => worker.dungeon.session = None
  /\ (Handled("on_encounter") /\ ~last.pre.enabled) =>
       /\ worker.dungeon = last.pre
       /\ last.update.aggregates = <<>>
       /\ last.update.zone_state = None
       /\ last.joined = <<>>

\* A run was open, the aggregator was disabled, and an encounter in a catalogued
\* zone is then given to it.
C38_Witness ==
  /\ Handled("on_encounter")
  /\ ~last.pre.enabled
  /\ IsSome(last.pre.catalog)
  /\ IsSome(canonical_zone(Unwrap(last.pre.catalog), last.record.encounter.zone))
  /\ \E i \in 1..Len(runs) : runs[i].by = "set_enabled"


(* ------------- what an append changes, under SpecDungeon -------------- *)

\* C39: the open session's zone, started time and party are those of the encounter
\* that seeded it, however many encounters joined it since; an append in the same
\* zone changes only last-seen, the totals and the lists of child keys and titles,
\* each list growing by one; and every aggregate returned has a child key.
C39_SeedFixesIdentity ==
  /\ IsSome(worker.dungeon.session) =>
       LET session == Unwrap(worker.dungeon.session)
           seed == last.joined[1].record
       IN /\ last.joined # <<>>
          /\ Some(session.zone)
               = canonical_zone(Unwrap(worker.dungeon.catalog), seed.encounter.zone)
          /\ session.started_ms = seed.first_seen_ms
          /\ session.party_signature = party_signature(seed.rows)
  /\ SameZone =>
       /\ IsSome(worker.dungeon.session)
       /\ LET before == Unwrap(last.pre.session)
              after == Unwrap(worker.dungeon.session)
          IN /\ after = [before EXCEPT
                           !.last_seen_ms = after.last_seen_ms,
                           !.total_duration_secs = after.total_duration_secs,
                           !.total_damage = after.total_damage,
                           !.total_healed = after.total_healed,
                           !.child_keys = after.child_keys,
                           !.child_titles = after.child_titles]
             /\ after.child_keys = Append(before.child_keys, last.key)
             /\ Len(after.child_titles) = Len(before.child_titles) + 1
             /\ after.last_seen_ms = last.record.last_seen_ms
  /\ \A i \in 1..Len(runs) : runs[i].aggregate.child_keys # <<>>

\* A run seeded by Alice's pull is joined by a later pull of another party: the
\* session keeps the seed's time and party.
C39_Witness ==
  /\ SameZone
  /\ Len(last.joined) = 2
  /\ party_signature(last.record.rows) # party_signature(last.joined[1].record.rows)
  /\ last.record.first_seen_ms # last.joined[1].record.first_seen_ms
  /\ Unwrap(worker.dungeon.session).party_signature
       = party_signature(last.joined[1].record.rows)


(* ------------- what is sent after Shutdown, under SpecQueue ----------- *)

\* The snapshots sent after the first Shutdown.
SentAfterShutdown ==
  {last.sent[i].snapshot : i \in {j \in (FirstShutdown + 1)..Len(last.sent) :
                                   last.sent[j].message = "Snapshot"}}

\* The frames the worker holds or has handed over: those of the open accumulator,
\* before and after the handler in flight, of the stored records, and of the
\* records in append calls made or still to make.
FramesHeld ==
  LET of(current) == IF IsSome(current)
                     THEN {Unwrap(current).frames[i] : i \in 1..Len(Unwrap(current).frames)}
                     ELSE {}
  IN of(worker.current)
       \cup (IF task.pc = "suspended" THEN of(task.end.current) ELSE {})
       \cup UNION {{store[k].record.frames[i] : i \in 1..Len(store[k].record.frames)} :
                   k \in 1..Len(store)}
       \cup UNION {{Whole[c].call.record.frames[i] :
                      i \in 1..Len(Whole[c].call.record.frames)} :
                   c \in {d \in 1..Len(Whole) : Whole[d].call.call = "append"}}

\* C40: once a Shutdown has been sent, nothing sent after it is received: the
\* messages received are those sent up to the Shutdown, the task is past its loop
\* when the Shutdown has been handled, and no snapshot sent after the Shutdown is
\* a frame of an accumulator or of a record; yet a producer can still send, whether
\* the task is running or gone.
C40_NothingAfterShutdown ==
  FirstShutdown > 0 =>
    /\ Len(Receipts) <= FirstShutdown
    /\ \A i \in 1..Len(Receipts) : Receipts[i].call.message = last.sent[i]
    /\ (Len(Receipts) = FirstShutdown /\ task.pc # "suspended") => task = Exited
    /\ \A snapshot \in SentAfterShutdown : FrameOf(snapshot) \notin FramesHeld
    /\ (clock < MaxSent /\ inbox.senders) => ENABLED Enqueue

\* An active tick, Shutdown, and another tick: the task has stored the first
\* encounter and is gone, and the second tick was sent all the same.
C40_Witness ==
  /\ task = Exited
  /\ Len(last.sent) = 3
  /\ FirstShutdown = 2
  /\ SentAfterShutdown # {}
  /\ \A snapshot \in SentAfterShutdown : snapshot.encounter.is_active
  /\ Len(store) = 1
  /\ Len(Receipts) = 2

====
